---- MODULE Spec2Model ----
(***************************************************************************)
(* A model of the PostgreSQL -> MongoDB migration in src/etl: the          *)
(* IDMapper, the timestamp/NULL conversions, the entity transformers of    *)
(* transform.py, and the bulk load of load.py into the target collections. *)
(*                                                                         *)
(* Encoding of Python values.  A nullable value is None (the empty tuple)  *)
(* or Some(v) (the one-element tuple <<v>>).  A dict is a record; a key    *)
(* that is absent from a dict is absent from the record's DOMAIN.  A list  *)
(* is a sequence.  An ObjectId is a natural number, fresh on each call of  *)
(* ObjectId().  A function that can raise returns a record whose field     *)
(* `raised` is "" on normal return and the exception's class otherwise.    *)
(***************************************************************************)
EXTENDS Integers, Sequences, FiniteSets, TLC

VARIABLES
    id_mapper,      \* the IDMapper instance: six tables and the ObjectId generator
    calls,          \* every <<entity type, pg_id, returned ObjectId, repeated call?>> of generate_*_id
    arg,            \* the source record handed to the transformer under study
    ret,            \* what that transformer returned (or raised)
    source_data,    \* the extracted dataset handed to transform_all_data
    mongo_data,     \* the result of transform_all_data
    db,             \* the target store: collection name -> sequence of documents
    all_stats,      \* load_all_data's per-collection LoadStats
    write_rejects,  \* the _ids the target store refuses to insert
    batch_size,     \* load_all_data's batch_size argument
    clear_existing, \* load_all_data's clear_existing argument
    pc,             \* position of the run
    dry_run,        \* MigrationOrchestrator.dry_run
    errors,         \* MigrationOrchestrator.stats["errors"]
    load_results,   \* what load_phase returned to run()
    trace,          \* what the run did, in order: phases entered, source queries,
                    \* target operations, the final summary, the client's close
    mongo_client,   \* config._mongo_client, the cached target client
    pg,             \* the source database: table name -> rows
    faults,         \* what goes wrong in this run, and where
    returned,       \* run()'s return value
    exit_code,      \* the status the process exited with
    report,         \* ValidationReport.results of run_all_validations
    all_records,    \* extract_with_pagination: the records fetched so far
    offset,         \* extract_with_pagination: the first row of the next page
    page_batch_num  \* extract_with_pagination: batch_num, the number of the next page

run_vars == <<dry_run, errors, load_results, trace, mongo_client, pg, faults, returned,
              exit_code, report,
        all_records, offset, page_batch_num>>

vars == <<id_mapper, calls, arg, ret, source_data, mongo_data, db, all_stats,
          write_rejects, batch_size, clear_existing, pc, dry_run, errors, load_results,
          trace, mongo_client, pg, faults, returned, exit_code, report,
        all_records, offset, page_batch_num>>

(***************************************************************************)
(* Bounds of the model.                                                    *)
(***************************************************************************)
MaxSrcId == 2       \* source integer ids are 1..MaxSrcId
MaxOids == 2        \* ObjectIds one mapper generates in the mapper specification
MaxComments == 2    \* comments of the task handed to transform_task
MaxLabelRows == 2   \* task_labels rows of the task handed to transform_task
MaxAssignees == 2   \* task_assignees rows of the task handed to transform_task
MaxMemberships == 2 \* org_members rows of the user handed to transform_user
MaxTasks == 2       \* tasks handed to transform_project and tasks of a dataset
MaxBatchSize == 2   \* batch_size of a load is 1..MaxBatchSize
MaxSampleSize == 2  \* sample_size of a validation is 1..MaxSampleSize
MaxRows == 4        \* rows of the table extract_with_pagination reads

SrcIds == 1..MaxSrcId

None == <<>>
Some(v) == <<v>>
Has(dict, key) == key \in DOMAIN dict
Del(dict, key) == [k \in DOMAIN dict \ {key} |-> dict[k]]

(***************************************************************************)
(* ID MAPPING                                                              *)
(***************************************************************************)
EntityTypes == {"org", "user", "label", "project", "task", "comment"}

\* IDMapper.__init__: six empty tables; `oids` counts the ObjectIds generated.
IDMapper ==
    [org_ids |-> <<>>, user_ids |-> <<>>, label_ids |-> <<>>,
     project_ids |-> <<>>, task_ids |-> <<>>, comment_ids |-> <<>>, oids |-> 0]

ObjectId_repeat(generated) == 1
\* bson.ObjectId(): a value no earlier call returned.
ObjectId(generated) == generated + 1

generate_org_id_nomemo(m, pg_id) ==
    LET oid == ObjectId(m.oids)
        tbl == [k \in (DOMAIN m.org_ids) \cup {pg_id} |->
                    IF k = pg_id THEN oid ELSE m.org_ids[k]]
    IN  [m |-> [m EXCEPT !.org_ids = tbl, !.oids = @ + 1], id |-> oid]
\* a mapper that hands out an id without registering it
generate_org_id_unregistered(m, pg_id) ==
    [m |-> [m EXCEPT !.oids = @ + 1], id |-> ObjectId(m.oids)]
generate_org_id(m, pg_id) ==
    IF pg_id \notin DOMAIN m.org_ids
    THEN LET oid == ObjectId(m.oids)
         IN  [m |-> [m EXCEPT !.org_ids = (pg_id :> oid) @@ @, !.oids = @ + 1],
              id |-> oid]
    ELSE [m |-> m, id |-> m.org_ids[pg_id]]

generate_user_id(m, pg_id) ==
    IF pg_id \notin DOMAIN m.user_ids
    THEN LET oid == ObjectId(m.oids)
         IN  [m |-> [m EXCEPT !.user_ids = (pg_id :> oid) @@ @, !.oids = @ + 1],
              id |-> oid]
    ELSE [m |-> m, id |-> m.user_ids[pg_id]]

generate_label_id(m, pg_id) ==
    IF pg_id \notin DOMAIN m.label_ids
    THEN LET oid == ObjectId(m.oids)
         IN  [m |-> [m EXCEPT !.label_ids = (pg_id :> oid) @@ @, !.oids = @ + 1],
              id |-> oid]
    ELSE [m |-> m, id |-> m.label_ids[pg_id]]

generate_project_id(m, pg_id) ==
    IF pg_id \notin DOMAIN m.project_ids
    THEN LET oid == ObjectId(m.oids)
         IN  [m |-> [m EXCEPT !.project_ids = (pg_id :> oid) @@ @, !.oids = @ + 1],
              id |-> oid]
    ELSE [m |-> m, id |-> m.project_ids[pg_id]]

generate_task_id(m, pg_id) ==
    IF pg_id \notin DOMAIN m.task_ids
    THEN LET oid == ObjectId(m.oids)
         IN  [m |-> [m EXCEPT !.task_ids = (pg_id :> oid) @@ @, !.oids = @ + 1],
              id |-> oid]
    ELSE [m |-> m, id |-> m.task_ids[pg_id]]

generate_comment_id(m, pg_id) ==
    IF pg_id \notin DOMAIN m.comment_ids
    THEN LET oid == ObjectId(m.oids)
         IN  [m |-> [m EXCEPT !.comment_ids = (pg_id :> oid) @@ @, !.oids = @ + 1],
              id |-> oid]
    ELSE [m |-> m, id |-> m.comment_ids[pg_id]]

\* The table of one entity type.
TableOf(m, type) ==
    CASE type = "org" -> m.org_ids
      [] type = "user" -> m.user_ids
      [] type = "label" -> m.label_ids
      [] type = "project" -> m.project_ids
      [] type = "task" -> m.task_ids
      [] type = "comment" -> m.comment_ids

\* IDMapper.get_stats
get_stats(m) ==
    [organizations |-> Cardinality(DOMAIN m.org_ids),
     users |-> Cardinality(DOMAIN m.user_ids),
     labels |-> Cardinality(DOMAIN m.label_ids),
     projects |-> Cardinality(DOMAIN m.project_ids),
     tasks |-> Cardinality(DOMAIN m.task_ids),
     comments |-> Cardinality(DOMAIN m.comment_ids)]

(***************************************************************************)
(* DATA TYPE CONVERSIONS                                                   *)
(*                                                                         *)
(* A timestamp string is the record of its parts, [day, hour, tz] with tz  *)
(* the text after the time ("" for none, "Z", "+00:00", "+02:00"); a       *)
(* string that is no ISO timestamp is the record [text |-> ...].  A        *)
(* datetime is [day, hour, utcoffset] with utcoffset None for a naive      *)
(* value and Some(hours) for a timezone-aware one.                         *)
(***************************************************************************)
Get(dict, key, default) == IF Has(dict, key) THEN dict[key] ELSE default

\* str.replace('Z', '+00:00') on a timestamp string
replace_Z(s) == IF Has(s, "tz") /\ s.tz = "Z" THEN [s EXCEPT !.tz = "+00:00"] ELSE s

\* datetime.fromisoformat (Python 3.11 and later): date, time and an optional
\* offset, +HH:MM or a trailing Z for UTC; ValueError on anything else.
fromisoformat(s) ==
    IF ~Has(s, "tz") \/ s.tz \notin {"", "Z", "+00:00", "+02:00"}
    THEN [raised |-> "ValueError", value |-> None]
    ELSE [raised |-> "",
          value |-> [day |-> s.day, hour |-> s.hour,
                     utcoffset |-> CASE s.tz = "" -> None
                                     [] s.tz = "Z" -> Some(0)
                                     [] s.tz = "+00:00" -> Some(0)
                                     [] s.tz = "+02:00" -> Some(2)]]

convert_timestamp(timestamp_str) ==
    IF timestamp_str = None
    THEN None
    ELSE LET parsed == fromisoformat(replace_Z(timestamp_str[1]))
         IN  IF parsed.raised # "" THEN None ELSE Some(parsed.value)

\* datetime.min: naive, before every other datetime
datetime_min == [day |-> 0, hour |-> 0, utcoffset |-> None]

\* datetime.__lt__: TypeError between an offset-naive and an offset-aware value;
\* aware values compare by their UTC instant.
datetime_comparable(a, b) == (a.utcoffset = None) <=> (b.utcoffset = None)
datetime_instant(a) ==
    a.day * 24 + a.hour - (IF a.utcoffset = None THEN 0 ELSE a.utcoffset[1])
datetime_lt(a, b) == datetime_instant(a) < datetime_instant(b)

\* the sort key of line 461: c['created_at'] or datetime.min
comment_sort_key(c) == IF c.created_at = None THEN datetime_min ELSE c.created_at[1]

\* comments.sort(key=...): a stable sort; each element is placed after the
\* elements whose key is not greater.  A comparison that raises ends the sort.
RECURSIVE sort_insert(_, _)
sort_insert(sorted, c) ==
    IF sorted = <<>>
    THEN [raised |-> "", list |-> <<c>>]
    ELSE LET last == sorted[Len(sorted)]
         IN  IF ~datetime_comparable(comment_sort_key(c), comment_sort_key(last))
             THEN [raised |-> "TypeError", list |-> <<>>]
             ELSE IF datetime_lt(comment_sort_key(c), comment_sort_key(last))
             THEN LET r == sort_insert(SubSeq(sorted, 1, Len(sorted) - 1), c)
                  IN  IF r.raised # "" THEN r
                      ELSE [raised |-> "", list |-> Append(r.list, last)]
             ELSE [raised |-> "", list |-> Append(sorted, c)]

RECURSIVE sort_comments_from(_, _)
sort_comments_from(comments, sorted) ==
    IF comments = <<>>
    THEN [raised |-> "", list |-> sorted]
    ELSE LET r == sort_insert(sorted, Head(comments))
         IN  IF r.raised # "" THEN r ELSE sort_comments_from(Tail(comments), r.list)

sort_comments(comments) == sort_comments_from(comments, <<>>)

(***************************************************************************)
(* TASKS TRANSFORMATION                                                    *)
(***************************************************************************)
Raise(exc, m) == [raised |-> exc, m |-> m, doc |-> None]
EmptyDict == <<>>

\* transform_task, lines 421-431: the task_assignees loop
RECURSIVE task_assignees_loop(_, _, _)
task_assignees_loop(rows, m, assignees) ==
    IF rows = <<>>
    THEN [raised |-> "", m |-> m, doc |-> assignees]
    ELSE LET assignment == Head(rows)
             user_data == Get(assignment, "users", Some(EmptyDict))
         IN  IF user_data = None THEN Raise("TypeError", m)
             ELSE IF ~Has(user_data[1], "id") THEN Raise("KeyError", m)
             ELSE LET g == generate_user_id(m, user_data[1].id)
                  IN  IF ~Has(assignment, "assigned_at") THEN Raise("KeyError", g.m)
                      ELSE task_assignees_loop(Tail(rows), g.m,
                              Append(assignees,
                                  [user_id |-> g.id,
                                   name |-> Get(user_data[1], "name", ""),
                                   email |-> Get(user_data[1], "email", ""),
                                   assigned_at |-> convert_timestamp(assignment.assigned_at)]))

\* transform_task, lines 433-444: the task_labels loop
RECURSIVE task_labels_loop(_, _, _)
task_labels_loop(rows, m, labels) ==
    IF rows = <<>>
    THEN [raised |-> "", m |-> m, doc |-> labels]
    ELSE LET task_label == Head(rows)
             label_data == Get(task_label, "labels", Some(EmptyDict))
         IN  IF label_data = None THEN Raise("AttributeError", m)
             ELSE IF Has(label_data[1], "id") /\ label_data[1].id # 0
             THEN LET g == generate_label_id(m, label_data[1].id)
                  IN  task_labels_loop(Tail(rows), g.m,
                          Append(labels,
                              [label_id |-> g.id,
                               name |-> Get(label_data[1], "name", ""),
                               color |-> Get(label_data[1], "color", "#000000")]))
             ELSE task_labels_loop(Tail(rows), m, labels)

\* transform_task, lines 446-458: the comments loop
RECURSIVE task_comments_loop(_, _, _)
task_comments_loop(rows, m, comments) ==
    IF rows = <<>>
    THEN [raised |-> "", m |-> m, doc |-> comments]
    ELSE LET comment == Head(rows)
             user_data == Get(comment, "users", Some(EmptyDict))
         IN  IF ~Has(comment, "id") THEN Raise("KeyError", m)
             ELSE LET gc == generate_comment_id(m, comment.id)
                  IN  IF user_data = None THEN Raise("TypeError", gc.m)
                      ELSE IF ~Has(user_data[1], "id") THEN Raise("KeyError", gc.m)
                      ELSE LET gu == generate_user_id(gc.m, user_data[1].id)
                           IN  IF ~Has(comment, "content") \/ ~Has(comment, "created_at")
                               THEN Raise("KeyError", gu.m)
                               ELSE task_comments_loop(Tail(rows), gu.m,
                                       Append(comments,
                                           [_id |-> gc.id,
                                            pg_id |-> comment.id,
                                            user_id |-> gu.id,
                                            author_name |-> Get(user_data[1], "name", ""),
                                            content |-> comment.content,
                                            created_at |-> convert_timestamp(comment.created_at)]))

task_document_keepnull(task, mongo_id, assignees, labels, comments) ==
    [_id |-> mongo_id,
     pg_id |-> task.id,
     title |-> task.title,
     description |-> Get(task, "description", None),
     status |-> task.status,
     priority |-> task.priority,
     due_date |-> convert_timestamp(Get(task, "due_date", None)),
     created_at |-> convert_timestamp(task.created_at),
     updated_at |-> convert_timestamp(task.updated_at),
     assignees |-> assignees,
     labels |-> labels,
     comments |-> comments,
     comment_count |-> Len(comments),
     assignee_count |-> Len(assignees)]
\* transform_task, lines 463-485: the document, without its description when None
task_document(task, mongo_id, assignees, labels, comments) ==
    LET doc == [_id |-> mongo_id,
                pg_id |-> task.id,
                title |-> task.title,
                description |-> Get(task, "description", None),
                status |-> task.status,
                priority |-> task.priority,
                due_date |-> convert_timestamp(Get(task, "due_date", None)),
                created_at |-> convert_timestamp(task.created_at),
                updated_at |-> convert_timestamp(task.updated_at),
                assignees |-> assignees,
                labels |-> labels,
                comments |-> comments,
                comment_count |-> Len(comments),
                assignee_count |-> Len(assignees)]
    IN  IF doc.description = None THEN Del(doc, "description") ELSE doc

transform_task(task, m, labels_lookup) ==
    IF ~Has(task, "id") THEN Raise("KeyError", m)
    ELSE
    LET g == generate_task_id(m, task.id)
        a == task_assignees_loop(Get(task, "task_assignees", <<>>), g.m, <<>>)
    IN  IF a.raised # "" THEN a ELSE
    LET l == task_labels_loop(Get(task, "task_labels", <<>>), a.m, <<>>)
    IN  IF l.raised # "" THEN l ELSE
    LET c == task_comments_loop(Get(task, "comments", <<>>), l.m, <<>>)
    IN  IF c.raised # "" THEN c ELSE
    LET sorted == sort_comments(c.doc)
    IN  IF sorted.raised # "" THEN Raise(sorted.raised, c.m)
        ELSE IF \E k \in {"title", "status", "priority", "created_at", "updated_at"} :
                    ~Has(task, k)
        THEN Raise("KeyError", c.m)
        ELSE [raised |-> "", m |-> c.m,
              doc |-> task_document(task, g.id, a.doc, l.doc, sorted.list)]

(***************************************************************************)
(* ORGANIZATIONS, USERS, LABELS TRANSFORMATION                             *)
(***************************************************************************)
\* transform_organization, lines 186-201: the id is registered before the
\* other fields of the record are read
transform_organization(org, m) ==
    IF ~Has(org, "id") THEN Raise("KeyError", m)
    ELSE IF ~Has(org, "name") \/ ~Has(org, "created_at")
    THEN Raise("KeyError", generate_org_id(m, org.id).m)
    ELSE LET g == generate_org_id(m, org.id)
             doc == [_id |-> g.id,
                     pg_id |-> org.id,
                     name |-> org.name,
                     created_at |-> convert_timestamp(org.created_at),
                     member_count |-> Len(Get(org, "org_members", <<>>)),
                     project_count |-> 0]
             settings == Get(org, "settings", None)
         IN  [raised |-> "", m |-> g.m,
              doc |-> IF settings # None /\ settings[1] # EmptyDict
                      THEN [k \in DOMAIN doc \cup {"settings"} |->
                                IF k = "settings" THEN settings[1] ELSE doc[k]]
                      ELSE doc]

RECURSIVE user_memberships_loop_reversed(_, _, _)
user_memberships_loop_reversed(rows, m, organizations) ==
    IF rows = <<>>
    THEN [raised |-> "", m |-> m, doc |-> organizations]
    ELSE LET membership == Head(rows)
             org_data == Get(membership, "organizations", Some(EmptyDict))
         IN  IF ~Has(membership, "org_id") THEN Raise("KeyError", m)
             ELSE LET g == generate_org_id(m, membership.org_id)
                  IN  IF org_data = None THEN Raise("AttributeError", g.m)
                      ELSE IF ~Has(membership, "role") \/ ~Has(membership, "joined_at")
                      THEN Raise("KeyError", g.m)
                      ELSE user_memberships_loop_reversed(Tail(rows), g.m,
                              <<[org_id |-> g.id,
                                 org_name |-> Get(org_data[1], "name", ""),
                                 role |-> membership.role,
                                 joined_at |-> convert_timestamp(membership.joined_at)]>>
                              \o organizations)
\* transform_user, lines 267-277: the org_members loop
RECURSIVE user_memberships_loop(_, _, _)
user_memberships_loop(rows, m, organizations) ==
    IF rows = <<>>
    THEN [raised |-> "", m |-> m, doc |-> organizations]
    ELSE LET membership == Head(rows)
             org_data == Get(membership, "organizations", Some(EmptyDict))
         IN  IF ~Has(membership, "org_id") THEN Raise("KeyError", m)
             ELSE LET g == generate_org_id(m, membership.org_id)
                  IN  IF org_data = None THEN Raise("AttributeError", g.m)
                      ELSE IF ~Has(membership, "role") \/ ~Has(membership, "joined_at")
                      THEN Raise("KeyError", g.m)
                      ELSE user_memberships_loop(Tail(rows), g.m,
                              Append(organizations,
                                  [org_id |-> g.id,
                                   org_name |-> Get(org_data[1], "name", ""),
                                   role |-> membership.role,
                                   joined_at |-> convert_timestamp(membership.joined_at)]))

transform_user(user, m) ==
    IF ~Has(user, "id") THEN Raise("KeyError", m)
    ELSE
    LET g == generate_user_id(m, user.id)
        o == user_memberships_loop(Get(user, "org_members", <<>>), g.m, <<>>)
    IN  IF o.raised # "" THEN o
        ELSE IF ~Has(user, "email") \/ ~Has(user, "name") \/ ~Has(user, "created_at")
        THEN Raise("KeyError", o.m)
        ELSE [raised |-> "", m |-> o.m,
              doc |-> [_id |-> g.id,
                       pg_id |-> user.id,
                       email |-> user.email,
                       name |-> user.name,
                       created_at |-> convert_timestamp(user.created_at),
                       organizations |-> o.doc,
                       stats |-> [assigned_tasks |-> 0, completed_tasks |-> 0,
                                  comments_made |-> 0]]]

\* transform_label with the organization reference taken from a mapper of its
\* own instead of the shared one
transform_label_own_mapper(label, m) ==
    IF ~Has(label, "id") THEN Raise("KeyError", m)
    ELSE
    LET gl == generate_label_id(m, label.id)
    IN  IF ~Has(label, "org_id") THEN Raise("KeyError", gl.m)
        ELSE
        LET go == generate_org_id(IDMapper, label.org_id)
        IN  IF ~Has(label, "name") \/ ~Has(label, "color") \/ ~Has(label, "created_at")
            THEN Raise("KeyError", gl.m)
            ELSE [raised |-> "", m |-> gl.m,
                  doc |-> [_id |-> gl.id,
                           pg_id |-> label.id,
                           org_id |-> go.id,
                           name |-> label.name,
                           color |-> label.color,
                           created_at |-> convert_timestamp(label.created_at),
                           usage_count |-> 0]]

transform_label(label, m) ==
    IF ~Has(label, "id") THEN Raise("KeyError", m)
    ELSE
    LET gl == generate_label_id(m, label.id)
    IN  IF ~Has(label, "org_id") THEN Raise("KeyError", gl.m)
        ELSE
        LET go == generate_org_id(gl.m, label.org_id)
        IN  IF ~Has(label, "name") \/ ~Has(label, "color") \/ ~Has(label, "created_at")
            THEN Raise("KeyError", go.m)
            ELSE [raised |-> "", m |-> go.m,
                  doc |-> [_id |-> gl.id,
                           pg_id |-> label.id,
                           org_id |-> go.id,
                           name |-> label.name,
                           color |-> label.color,
                           created_at |-> convert_timestamp(label.created_at),
                           usage_count |-> 0]]

\* transform_organizations, lines 220-226: one document per record, in order; the first
\* record that raises ends the loop.
RECURSIVE transform_organizations_from(_, _, _)
transform_organizations_from(organizations, m, mongo_docs) ==
    IF organizations = <<>>
    THEN [raised |-> "", m |-> m, doc |-> mongo_docs]
    ELSE LET r == transform_organization(Head(organizations), m)
         IN  IF r.raised # "" THEN r
             ELSE transform_organizations_from(Tail(organizations), r.m, Append(mongo_docs, r.doc))

transform_organizations(organizations, m) == transform_organizations_from(organizations, m, <<>>)

\* transform_users, lines 312-318: one document per record, in order; the first
\* record that raises ends the loop.
RECURSIVE transform_users_from(_, _, _)
transform_users_from(users, m, mongo_docs) ==
    IF users = <<>>
    THEN [raised |-> "", m |-> m, doc |-> mongo_docs]
    ELSE LET r == transform_user(Head(users), m)
         IN  IF r.raised # "" THEN r
             ELSE transform_users_from(Tail(users), r.m, Append(mongo_docs, r.doc))

transform_users(users, m) == transform_users_from(users, m, <<>>)

\* transform_labels, lines 373-379: one document per record, in order; the first
\* record that raises ends the loop.
RECURSIVE transform_labels_from(_, _, _)
transform_labels_from(labels, m, mongo_docs) ==
    IF labels = <<>>
    THEN [raised |-> "", m |-> m, doc |-> mongo_docs]
    ELSE LET r == transform_label(Head(labels), m)
         IN  IF r.raised # "" THEN r
             ELSE transform_labels_from(Tail(labels), r.m, Append(mongo_docs, r.doc))

transform_labels(labels, m) == transform_labels_from(labels, m, <<>>)

(***************************************************************************)
(* PROJECTS TRANSFORMATION (with embedded tasks)                           *)
(***************************************************************************)
\* the task loop without its project_id filter: every task is embedded
RECURSIVE project_tasks_loop_unfiltered(_, _, _, _, _)
project_tasks_loop_unfiltered(project, tasks, m, labels_lookup, transformed_tasks) ==
    IF tasks = <<>>
    THEN [raised |-> "", m |-> m, doc |-> transformed_tasks]
    ELSE LET append(r) ==
                 IF r.raised # "" THEN r
                 ELSE project_tasks_loop_unfiltered(project, Tail(tasks), r.m, labels_lookup,
                                                    Append(transformed_tasks, r.doc))
         IN  append(transform_task(Head(tasks), m, labels_lookup))

\* transform_project, lines 526-531: the tasks of this project, transformed.
\* The result of a call is named by handing it to a local operator (append,
\* with_...), which uses it after the call has returned.
RECURSIVE project_tasks_loop(_, _, _, _, _)
project_tasks_loop(project, tasks, m, labels_lookup, transformed_tasks) ==
    IF tasks = <<>>
    THEN [raised |-> "", m |-> m, doc |-> transformed_tasks]
    ELSE LET task == Head(tasks)
         IN  IF ~Has(task, "project_id") THEN Raise("KeyError", m)
             ELSE IF task.project_id = project.id
             THEN LET append(r) ==
                          IF r.raised # "" THEN r
                          ELSE project_tasks_loop(project, Tail(tasks), r.m, labels_lookup,
                                                  Append(transformed_tasks, r.doc))
                  IN  append(transform_task(task, m, labels_lookup))
             ELSE project_tasks_loop(project, Tail(tasks), m, labels_lookup,
                                     transformed_tasks)

\* sum(1 for t in transformed_tasks if t['status'] == status)
count_status(transformed_tasks, status) ==
    Cardinality({i \in DOMAIN transformed_tasks : transformed_tasks[i].status = status})

\* a total that counts the tasks instead of their comments
sum_comment_count_counts_tasks(transformed_tasks) == Len(transformed_tasks)

RECURSIVE sum_comment_count(_)
sum_comment_count(transformed_tasks) ==
    IF transformed_tasks = <<>> THEN 0
    ELSE Head(transformed_tasks).comment_count + sum_comment_count(Tail(transformed_tasks))

\* transform_project, lines 533-540
project_stats(transformed_tasks) ==
    [total_tasks |-> Len(transformed_tasks),
     completed_tasks |-> count_status(transformed_tasks, "completed"),
     in_progress_tasks |-> count_status(transformed_tasks, "in_progress"),
     todo_tasks |-> count_status(transformed_tasks, "todo"),
     total_comments |-> sum_comment_count(transformed_tasks)]

\* transform_project, lines 533-559: the statistics and the document built from
\* the transformed tasks t, without its description when None
project_document(project, mongo_id, t) ==
    IF t.raised # "" THEN t
    ELSE IF ~Has(project, "org_id") THEN Raise("KeyError", t.m)
    ELSE
    LET org_data == Get(project, "organizations", Some(EmptyDict))
        go == generate_org_id(t.m, project.org_id)
    IN  IF org_data = None THEN Raise("AttributeError", go.m)
        ELSE IF ~Has(project, "name") \/ ~Has(project, "status")
                \/ ~Has(project, "created_at")
        THEN Raise("KeyError", go.m)
        ELSE
        LET doc == [_id |-> mongo_id,
                    pg_id |-> project.id,
                    org_id |-> go.id,
                    org_name |-> Get(org_data[1], "name", ""),
                    name |-> project.name,
                    description |-> Get(project, "description", None),
                    status |-> project.status,
                    created_at |-> convert_timestamp(project.created_at),
                    tasks |-> t.doc,
                    stats |-> project_stats(t.doc)]
        IN  [raised |-> "", m |-> go.m,
             doc |-> IF doc.description = None THEN Del(doc, "description") ELSE doc]

transform_project(project, tasks, m, labels_lookup) ==
    IF ~Has(project, "id") THEN Raise("KeyError", m)
    ELSE
    LET g == generate_project_id(m, project.id)
    IN  project_document(project, g.id,
                         project_tasks_loop(project, tasks, g.m, labels_lookup, <<>>))

\* transform_projects, lines 585-588: one document per project, in order; the
\* first project that raises ends the loop.
RECURSIVE transform_projects_from(_, _, _, _, _)
transform_projects_from(projects, tasks, m, labels_lookup, mongo_docs) ==
    IF projects = <<>>
    THEN [raised |-> "", m |-> m, doc |-> mongo_docs]
    ELSE LET append(r) ==
                 IF r.raised # "" THEN r
                 ELSE transform_projects_from(Tail(projects), tasks, r.m, labels_lookup,
                                              Append(mongo_docs, r.doc))
         IN  append(transform_project(Head(projects), tasks, m, labels_lookup))

transform_projects(projects, tasks, m, labels_lookup) ==
    transform_projects_from(projects, tasks, m, labels_lookup, <<>>)

(***************************************************************************)
(* COMPLETE TRANSFORMATION                                                 *)
(***************************************************************************)
\* {label['id']: label for label in source_data['labels']}: the last label wins
make_labels_lookup(labels) ==
    [id \in {labels[i].id : i \in DOMAIN labels} |->
        labels[CHOOSE i \in DOMAIN labels :
                  /\ labels[i].id = id
                  /\ \A j \in DOMAIN labels : labels[j].id = id => j <= i]]

NoData(exc, m) == [raised |-> exc, m |-> m]

\* transform_all_data: a fresh IDMapper (`mapper`); organizations, users,
\* labels, projects in this order; any exception is re-raised and nothing is
\* returned.
transform_all_data_from(data, mapper) ==
    IF \E i \in DOMAIN data.labels : ~Has(data.labels[i], "id")
    THEN NoData("KeyError", mapper)
    ELSE
    LET labels_lookup == make_labels_lookup(data.labels)
        with_projects(o, u, l, p) ==
            IF p.raised # "" THEN NoData(p.raised, p.m)
            ELSE [raised |-> "", m |-> p.m,
                  organizations |-> o.doc, users |-> u.doc,
                  labels |-> l.doc, projects |-> p.doc]
        with_labels(o, u, l) ==
            IF l.raised # "" THEN NoData(l.raised, l.m)
            ELSE with_projects(o, u, l,
                     transform_projects(data.projects, data.tasks, l.m, labels_lookup))
        with_users(o, u) ==
            IF u.raised # "" THEN NoData(u.raised, u.m)
            ELSE with_labels(o, u, transform_labels(data.labels, u.m))
        with_organizations(o) ==
            IF o.raised # "" THEN NoData(o.raised, o.m)
            ELSE with_users(o, transform_users(data.users, o.m))
    IN  with_organizations(transform_organizations(data.organizations, mapper))

transform_all_data(data) == transform_all_data_from(data, IDMapper)

\* the IDMapper of a later run: empty tables, and ObjectIds that differ from
\* the `generated` ones handed out before
LaterIDMapper(generated) == [IDMapper EXCEPT !.oids = generated]

(***************************************************************************)
(* LOAD (load.py) into the target store.  A collection is the sequence of  *)
(* its documents in insertion order.                                       *)
(***************************************************************************)
CollectionNames == <<"organizations", "users", "labels", "projects">>

\* LoadStats.__init__
LoadStats(collection_name) ==
    [collection_name |-> collection_name, total_documents |-> 0, inserted_count |-> 0,
     failed_count |-> 0, errors |-> <<>>, batches_processed |-> 0]
add_success(stats, count) == [stats EXCEPT !.inserted_count = @ + count]
\* a failure that is logged but not counted
add_failure_uncounted(stats, count, error) == [stats EXCEPT !.errors = Append(@, error)]
add_failure(stats, count, error) ==
    [stats EXCEPT !.failed_count = @ + count, !.errors = Append(@, error)]
increment_batch(stats) == [stats EXCEPT !.batches_processed = @ + 1]

\* collection.bulk_write([InsertOne(doc), ...], ordered=False): every document
\* is attempted; one whose _id the collection already holds, or that the
\* server refuses, becomes a write error; any write error raises BulkWriteError.
RECURSIVE bulk_write_from(_, _, _, _, _)
bulk_write_from(collection, batch, rejects, nInserted, writeErrors) ==
    IF batch = <<>>
    THEN [collection |-> collection,
          raised |-> IF writeErrors = 0 THEN "" ELSE "BulkWriteError",
          nInserted |-> nInserted, writeErrors |-> writeErrors]
    ELSE LET doc == Head(batch)
         IN  IF doc._id \in rejects \/ \E i \in DOMAIN collection : collection[i]._id = doc._id
             THEN bulk_write_from(collection, Tail(batch), rejects, nInserted,
                                  writeErrors + 1)
             ELSE bulk_write_from(Append(collection, doc), Tail(batch), rejects,
                                  nInserted + 1, writeErrors)
bulk_write(collection, batch, rejects) == bulk_write_from(collection, batch, rejects, 0, 0)

\* a slice that stops one document short of the batch size
batch_slice_short(documents, i, size) ==
    SubSeq(documents, i + 1, IF i + size - 1 < Len(documents) THEN i + size - 1 ELSE Len(documents))

\* documents[i:i + batch_size], i counted from 0
batch_slice(documents, i, size) ==
    SubSeq(documents, i + 1, IF i + size < Len(documents) THEN i + size ELSE Len(documents))

\* What the target server does to the operations it receives: the _ids it
\* refuses to insert, the <<collection, batch number>> bulk writes that fail as
\* a whole (the driver raises something other than BulkWriteError), and the
\* collections whose delete_many fails.
Server(rejects, raises, delete_raises) ==
    [rejects |-> rejects, raises |-> raises, delete_raises |-> delete_raises]

\* the record of one operation the server received
BulkWriteOp(collection_name, batch_num, batch) ==
    [op |-> "bulk_write", collection |-> collection_name, batch_num |-> batch_num,
     ids |-> [k \in DOMAIN batch |-> batch[k]._id]]
DeleteManyOp(collection_name) ==
    [op |-> "delete_many", collection |-> collection_name, batch_num |-> 0, ids |-> <<>>]

\* a batch loop that gives up the collection at the first failed bulk write
RECURSIVE load_batches_stops_at_failure(_, _, _, _, _, _)
load_batches_stops_at_failure(collection, documents, i, size, server, stats) ==
    IF i >= Len(documents)
    THEN [raised |-> "", collection |-> collection, stats |-> stats, operations |-> <<>>]
    ELSE LET batch == batch_slice(documents, i, size)
             batch_num == (i \div size) + 1
             result ==
                 IF <<stats.collection_name, batch_num>> \in server.raises
                 THEN [collection |-> collection, raised |-> "Exception",
                       nInserted |-> 0, writeErrors |-> 0]
                 ELSE bulk_write(collection, batch, server.rejects)
             rest(r) ==
                 IF r.raised = ""
                 THEN load_batches_stops_at_failure(
                          r.collection, documents, i + size, size, server,
                          increment_batch(add_success(stats, r.nInserted)))
                 ELSE [raised |-> "", collection |-> r.collection,
                       stats |-> increment_batch(add_failure(stats, Len(batch), r.raised)),
                       operations |-> <<>>]
             prepend(t) ==
                 [t EXCEPT !.operations =
                      <<BulkWriteOp(stats.collection_name, batch_num, batch)>> \o @]
         IN  prepend(rest(result))

\* load_collection_bulk, lines 141-192: the batches from offset i on.  Every
\* batch is handed to bulk_write; BulkWriteError, DuplicateKeyError and any
\* other exception are recorded in stats and the loop goes on.
RECURSIVE load_batches(_, _, _, _, _, _)
load_batches(collection, documents, i, size, server, stats) ==
    IF i >= Len(documents)
    THEN [raised |-> "", collection |-> collection, stats |-> stats, operations |-> <<>>]
    ELSE LET batch == batch_slice(documents, i, size)
             batch_num == (i \div size) + 1
             result ==
                 IF <<stats.collection_name, batch_num>> \in server.raises
                 THEN [collection |-> collection, raised |-> "Exception",
                       nInserted |-> 0, writeErrors |-> 0]
                 ELSE bulk_write(collection, batch, server.rejects)
             recorded ==
                 CASE result.raised = "" ->
                          increment_batch(add_success(stats, result.nInserted))
                   [] result.raised = "BulkWriteError" ->
                          increment_batch(
                              add_failure(add_success(stats, result.nInserted),
                                          result.writeErrors, "BulkWriteError"))
                   [] OTHER ->
                          increment_batch(add_failure(stats, Len(batch), "Unexpected error"))
             rest == load_batches(result.collection, documents, i + size, size, server,
                                  recorded)
         IN  [rest EXCEPT !.operations =
                  <<BulkWriteOp(stats.collection_name, batch_num, batch)>> \o @]

load_collection_bulk(collection, collection_name, documents, size, server) ==
    LET stats == [LoadStats(collection_name) EXCEPT !.total_documents = Len(documents)]
    IN  IF documents = <<>>
        THEN [raised |-> "", collection |-> collection, stats |-> stats,
              operations |-> <<>>]
        ELSE load_batches(collection, documents, 0, size, server, stats)

\* {"$set": doc} applied to a stored document: the fields of doc replace or
\* join the stored ones, the other stored fields stay
set_fields(stored, doc) ==
    [k \in DOMAIN stored \cup DOMAIN doc |-> IF k \in DOMAIN doc THEN doc[k] ELSE stored[k]]

\* collection.bulk_write([UpdateOne({"_id": doc["_id"]}, {"$set": doc},
\* upsert=True), ...], ordered=False): a document whose _id the collection
\* holds is updated in place (counted as modified only when a field changes),
\* any other is inserted (counted as upserted); one the server refuses becomes
\* a write error, and any write error raises BulkWriteError.
RECURSIVE bulk_upsert_from(_, _, _, _, _, _)
bulk_upsert_from(collection, batch, rejects, nUpserted, nModified, writeErrors) ==
    IF batch = <<>>
    THEN [collection |-> collection,
          raised |-> IF writeErrors = 0 THEN "" ELSE "BulkWriteError",
          nUpserted |-> nUpserted, nModified |-> nModified, writeErrors |-> writeErrors]
    ELSE LET doc == Head(batch)
             held == {i \in DOMAIN collection : collection[i]._id = doc._id}
         IN  IF doc._id \in rejects
             THEN bulk_upsert_from(collection, Tail(batch), rejects, nUpserted, nModified,
                                   writeErrors + 1)
             ELSE IF held = {}
             THEN bulk_upsert_from(Append(collection, doc), Tail(batch), rejects,
                                   nUpserted + 1, nModified, writeErrors)
             ELSE LET i == CHOOSE j \in held : TRUE
                      updated == set_fields(collection[i], doc)
                  IN  bulk_upsert_from([collection EXCEPT ![i] = updated], Tail(batch),
                                       rejects, nUpserted,
                                       IF updated = collection[i] THEN nModified
                                       ELSE nModified + 1,
                                       writeErrors)
bulk_upsert(collection, batch, rejects) ==
    bulk_upsert_from(collection, batch, rejects, 0, 0, 0)

\* upsert_collection_bulk, lines 254-298: the batches from offset i on.  The
\* successes of a batch are its upserted and modified documents, also when
\* BulkWriteError is raised; any other exception fails the whole batch.
RECURSIVE upsert_batches(_, _, _, _, _, _)
upsert_batches(collection, documents, i, size, server, stats) ==
    IF i >= Len(documents)
    THEN [raised |-> "", collection |-> collection, stats |-> stats, operations |-> <<>>]
    ELSE LET batch == batch_slice(documents, i, size)
             batch_num == (i \div size) + 1
             result ==
                 IF <<stats.collection_name, batch_num>> \in server.raises
                 THEN [collection |-> collection, raised |-> "Exception",
                       nUpserted |-> 0, nModified |-> 0, writeErrors |-> 0]
                 ELSE bulk_upsert(collection, batch, server.rejects)
             upserted == result.nUpserted + result.nModified
             recorded ==
                 CASE result.raised = "" ->
                          increment_batch(add_success(stats, upserted))
                   [] result.raised = "BulkWriteError" ->
                          increment_batch(
                              add_failure(add_success(stats, upserted),
                                          result.writeErrors, "BulkWriteError"))
                   [] OTHER ->
                          increment_batch(add_failure(stats, Len(batch), "Unexpected error"))
             rest == upsert_batches(result.collection, documents, i + size, size, server,
                                    recorded)
         IN  [rest EXCEPT !.operations =
                  <<BulkWriteOp(stats.collection_name, batch_num, batch)>> \o @]

\* upsert_collection_bulk: nothing is sent for an empty list
upsert_collection_bulk(collection, collection_name, documents, size, server) ==
    LET stats == [LoadStats(collection_name) EXCEPT !.total_documents = Len(documents)]
    IN  IF documents = <<>>
        THEN [raised |-> "", collection |-> collection, stats |-> stats,
              operations |-> <<>>]
        ELSE upsert_batches(collection, documents, 0, size, server, stats)

\* str.lower on a string, given as the sequence of its characters, for the
\* characters of the model: printable ASCII, the letters É, é, Σ, σ, ς, the
\* dotted capital I (U+0130) and the combining dot above (U+0307); these
\* two and the grave accent are written "U+0130", "U+0307" and "U+0060".  An upper-case letter becomes its
\* lower-case letter; U+0130 becomes i followed by U+0307; Σ becomes ς
\* at the end of a word (after a cased letter and not before one, the
\* case-ignorable characters ' . : ^ U+0060 and U+0307 skipped) and σ elsewhere;
\* anything else stays.  No value is given for other characters.
lower(response) ==
    LET upper == <<"A", "B", "C", "D", "E", "F", "G", "H", "I", "J", "K", "L", "M",
                   "N", "O", "P", "Q", "R", "S", "T", "U", "V", "W", "X", "Y", "Z", "É">>
        small == <<"a", "b", "c", "d", "e", "f", "g", "h", "i", "j", "k", "l", "m",
                   "n", "o", "p", "q", "r", "s", "t", "u", "v", "w", "x", "y", "z", "é">>
        ignorable == {"'", ".", ":", "^", "U+0060", "U+0307"}
        uncased == {" ", "!", "\"", "#", "$", "%", "&", "(", ")", "*", "+", ",", "-", "/",
                    "0", "1", "2", "3", "4", "5", "6", "7", "8", "9", ";", "<", "=", ">",
                    "?", "@", "[", "\\", "]", "_", "{", "|", "}", "~"}
        cased(c) == \/ \E k \in DOMAIN upper : c \in {upper[k], small[k]}
                    \/ c \in {"Σ", "σ", "ς", "U+0130"}
        after_cased(i) ==
            \E j \in 1..(i - 1) :
                cased(response[j]) /\ \A k \in (j + 1)..(i - 1) : response[k] \in ignorable
        before_cased(i) ==
            \E j \in (i + 1)..Len(response) :
                cased(response[j]) /\ \A k \in (i + 1)..(j - 1) : response[k] \in ignorable
        lower_char(i) ==
            LET c == response[i]
            IN  CASE \E k \in DOMAIN upper : upper[k] = c ->
                         <<small[CHOOSE k \in DOMAIN upper : upper[k] = c]>>
                  [] c = "U+0130" -> <<"i", "U+0307">>
                  [] c = "Σ" -> IF after_cased(i) /\ ~before_cased(i)
                                THEN <<"ς">> ELSE <<"σ">>
                  [] \/ \E k \in DOMAIN small : small[k] = c
                     \/ c \in {"σ", "ς"} \cup ignorable \cup uncased -> <<c>>
        RECURSIVE lower_from(_)
        lower_from(i) ==
            IF i > Len(response) THEN <<>> ELSE lower_char(i) \o lower_from(i + 1)
    IN  lower_from(1)

\* the string "yes"
Yes == <<"y", "e", "s">>

\* what is typed at a yes/no prompt: yes in several spellings, no, nothing,
\* and answers that are not yes (a letter only, a trailing blank)
Responses ==
    {Yes, <<"Y", "E", "S">>, <<"y", "E", "s">>, <<"n", "o">>, <<"N", "O">>, <<>>,
     <<"y">>, <<"y", "e", "s", " ">>}

\* MongoSchemaManager.drop_database: after "yes" at the prompt, in any case,
\* every collection of the database is dropped; any other answer cancels
drop_database(store, response) ==
    IF lower(response) # Yes THEN store
    ELSE [name \in DOMAIN store |-> <<>>]

\* a clearing that deletes nothing
clear_all_collections_keeps(store, server) ==
    [raised |-> "", db |-> store, operations |-> <<>>]

\* clear_all_collections: delete_many({}) on each of the four collections in
\* turn; a delete that raises ends it (clear_collection re-raises).
RECURSIVE clear_collections_from(_, _, _, _)
clear_collections_from(store, names, server, operations) ==
    IF names = <<>>
    THEN [raised |-> "", db |-> store, operations |-> operations]
    ELSE IF Head(names) \in server.delete_raises
    THEN [raised |-> "Exception", db |-> store,
          operations |-> Append(operations, DeleteManyOp(Head(names)))]
    ELSE clear_collections_from([store EXCEPT ![Head(names)] = <<>>], Tail(names), server,
                                Append(operations, DeleteManyOp(Head(names))))

clear_all_collections(store, server) ==
    clear_collections_from(store, CollectionNames, server, <<>>)

RECURSIVE sum_field(_, _, _)
sum_field(stats, names, field) ==
    IF names = <<>> THEN 0
    ELSE stats[Head(names)][field] + sum_field(stats, Tail(names), field)

\* a load that sends the projects before the collections they refer to
load_collections_projects_first(store, data, size, server, operations) ==
    LET p == load_collection_bulk(store.projects, "projects", data.projects, size, server)
        o == load_collection_bulk(store.organizations, "organizations",
                                  data.organizations, size, server)
        u == load_collection_bulk(store.users, "users", data.users, size, server)
        l == load_collection_bulk(store.labels, "labels", data.labels, size, server)
        stats == [organizations |-> o.stats, users |-> u.stats,
                  labels |-> l.stats, projects |-> p.stats]
    IN  [raised |-> "",
         db |-> [organizations |-> o.collection, users |-> u.collection,
                 labels |-> l.collection, projects |-> p.collection],
         results |-> [total_documents |-> sum_field(stats, CollectionNames, "total_documents"),
                      total_inserted |-> sum_field(stats, CollectionNames, "inserted_count"),
                      total_failed |-> sum_field(stats, CollectionNames, "failed_count"),
                      collections |-> stats],
         operations |-> operations \o p.operations \o o.operations \o u.operations
                        \o l.operations]

\* load_all_data, lines 517-573: organizations, users, labels, projects in this
\* order, each through load_collection_bulk; then the totals.
load_collections(store, data, size, server, operations) ==
    LET o == load_collection_bulk(store.organizations, "organizations",
                                  data.organizations, size, server)
        u == load_collection_bulk(store.users, "users", data.users, size, server)
        l == load_collection_bulk(store.labels, "labels", data.labels, size, server)
        p == load_collection_bulk(store.projects, "projects", data.projects, size, server)
        stats == [organizations |-> o.stats, users |-> u.stats,
                  labels |-> l.stats, projects |-> p.stats]
    IN  [raised |-> "",
         db |-> [organizations |-> o.collection, users |-> u.collection,
                 labels |-> l.collection, projects |-> p.collection],
         results |-> [total_documents |-> sum_field(stats, CollectionNames, "total_documents"),
                      total_inserted |-> sum_field(stats, CollectionNames, "inserted_count"),
                      total_failed |-> sum_field(stats, CollectionNames, "failed_count"),
                      collections |-> stats],
         operations |-> operations \o o.operations \o u.operations
                        \o l.operations \o p.operations]

\* config.get_mongo_client: the cached client, created on first use
get_mongo_client(client) == IF client # None THEN client ELSE Some("MongoClient")

\* load_all_data opens a MongoConnection when it clears and for every
\* collection it has documents for (load_collection_bulk returns before the
\* connection when there are none)
load_connects(data, clear) ==
    clear \/ \E i \in DOMAIN CollectionNames : data[CollectionNames[i]] # <<>>

\* a load that goes on to the inserts after a delete has raised
load_all_data_ignores_clear_failure(store, data, size, clear, server) ==
    IF clear
    THEN LET cleared(c) == load_collections(c.db, data, size, server, c.operations)
         IN  cleared(clear_all_collections(store, server))
    ELSE load_collections(store, data, size, server, <<>>)

\* load_all_data: clear when asked (an exception there leaves the function
\* before anything is loaded), then load the four collections.
load_all_data(store, data, size, clear, server) ==
    IF clear
    THEN LET cleared(c) ==
                 IF c.raised # ""
                 THEN [raised |-> c.raised, db |-> c.db, results |-> None,
                       operations |-> c.operations]
                 ELSE load_collections(c.db, data, size, server, c.operations)
         IN  cleared(clear_all_collections(store, server))
    ELSE load_collections(store, data, size, server, <<>>)

(***************************************************************************)
(* COUNT VALIDATION (validate.py)                                          *)
(***************************************************************************)
\* validate_organization_count .. validate_project_count: the source table's
\* row count against count_documents({}) of the collection
validate_count(pg_rows, collection) == Len(pg_rows) = Len(collection)

RECURSIVE embedded_task_count(_)
embedded_task_count(projects) ==
    IF projects = <<>> THEN 0
    ELSE Len(Get(Head(projects), "tasks", <<>>)) + embedded_task_count(Tail(projects))

\* validate_task_count: the tasks table's row count against the sum of the
\* projects' embedded task arrays
validate_task_count(pg_tasks, projects) == Len(pg_tasks) = embedded_task_count(projects)

(***************************************************************************)
(* The mapper on its own: any interleaving of generate_*_id calls on one   *)
(* IDMapper instance.                                                      *)
(***************************************************************************)
Idle == [raised |-> "", idle |-> TRUE]
DefaultBatchSize == 1000    \* config.BATCH_SIZE
EmptyDb == [organizations |-> <<>>, users |-> <<>>, labels |-> <<>>, projects |-> <<>>]

\* no MigrationOrchestrator exists
NoRun ==
    /\ dry_run = FALSE
    /\ errors = <<>>
    /\ load_results = None
    /\ trace = <<>>
    /\ mongo_client = None
    /\ pg = None
    /\ faults = None
    /\ returned = None
    /\ exit_code = None
    /\ report = <<>>
    /\ all_records = <<>>
    /\ offset = 0
    /\ page_batch_num = 1

InitMapper ==
    /\ NoRun
    /\ id_mapper = IDMapper
    /\ calls = {}
    /\ arg = None
    /\ ret = Idle
    /\ source_data = None
    /\ mongo_data = None
    /\ db = EmptyDb
    /\ all_stats = <<>>
    /\ write_rejects = {}
    /\ batch_size = DefaultBatchSize
    /\ clear_existing = FALSE
    /\ pc = "mapper"

\* The model stops generating at MaxOids ObjectIds; lookups stay possible.
CanCall(type, pg_id) ==
    /\ pc = "mapper"
    /\ \/ pg_id \in DOMAIN TableOf(id_mapper, type)
       \/ id_mapper.oids < MaxOids

Returned(type, pg_id, r) ==
    /\ id_mapper' = r.m
    /\ calls' = calls \cup {<<type, pg_id, r.id, pg_id \in DOMAIN TableOf(id_mapper, type)>>}
    /\ UNCHANGED <<arg, ret, source_data, mongo_data, db, all_stats, write_rejects,
                   batch_size, clear_existing, pc>>
    /\ UNCHANGED run_vars

CallGenerateOrgId ==
    \E pg_id \in SrcIds :
        CanCall("org", pg_id) /\ Returned("org", pg_id, generate_org_id(id_mapper, pg_id))
CallGenerateUserId ==
    \E pg_id \in SrcIds :
        CanCall("user", pg_id) /\ Returned("user", pg_id, generate_user_id(id_mapper, pg_id))
CallGenerateLabelId ==
    \E pg_id \in SrcIds :
        CanCall("label", pg_id) /\ Returned("label", pg_id, generate_label_id(id_mapper, pg_id))
CallGenerateProjectId ==
    \E pg_id \in SrcIds :
        CanCall("project", pg_id)
        /\ Returned("project", pg_id, generate_project_id(id_mapper, pg_id))
CallGenerateTaskId ==
    \E pg_id \in SrcIds :
        CanCall("task", pg_id) /\ Returned("task", pg_id, generate_task_id(id_mapper, pg_id))
CallGenerateCommentId ==
    \E pg_id \in SrcIds :
        CanCall("comment", pg_id)
        /\ Returned("comment", pg_id, generate_comment_id(id_mapper, pg_id))

NextMapper ==
    \/ CallGenerateOrgId
    \/ CallGenerateUserId
    \/ CallGenerateLabelId
    \/ CallGenerateProjectId
    \/ CallGenerateTaskId
    \/ CallGenerateCommentId

SpecMapper == InitMapper /\ [][NextMapper]_vars

\* C1: repeated generate_<type>_id calls for one (entity type, source id) on one
\* IDMapper return the identical value, whatever other calls come in between:
\* no two recorded returns for the same pair differ, and each equals the table's entry.
C1_IdempotentIds ==
    \A c1 \in calls, c2 \in calls :
        (c1[1] = c2[1] /\ c1[2] = c2[2]) =>
            /\ c1[3] = c2[3]
            /\ c1[2] \in DOMAIN TableOf(id_mapper, c1[1])
            /\ TableOf(id_mapper, c1[1])[c1[2]] = c1[3]
\* Organization 1's id was requested again after its first call, on a mapper
\* that also served a user with the same source id.
C1_Witness ==
    /\ \E oid \in 1..MaxOids : <<"org", 1, oid, TRUE>> \in calls
    /\ \E oid \in 1..MaxOids : <<"user", 1, oid, FALSE>> \in calls

\* C2: no generated id is held for two different (entity type, source id)
\* pairs: each table is injective and the six tables' values are disjoint.
C2_DisjointIds ==
    \A t1 \in EntityTypes, t2 \in EntityTypes :
        \A p1 \in DOMAIN TableOf(id_mapper, t1), p2 \in DOMAIN TableOf(id_mapper, t2) :
            (TableOf(id_mapper, t1)[p1] = TableOf(id_mapper, t2)[p2]) => (t1 = t2 /\ p1 = p2)
\* The same integer source id is registered under two entity types.
C2_Witness ==
    /\ 1 \in DOMAIN id_mapper.org_ids
    /\ 1 \in DOMAIN id_mapper.comment_ids

(***************************************************************************)
(* The transformers one record at a time: transform_task, transform_user   *)
(* and transform_project applied to a source record drawn from bounded     *)
(* sets, on a fresh IDMapper.                                              *)
(***************************************************************************)
Names == <<"Ann", "Bob", "Cy", "Di">>
NameOf(id) == Names[((id - 1) % Len(Names)) + 1]
OrgNames == <<"Acme", "Bolt", "Core", "Dune">>
OrgNameOf(id) == OrgNames[((id - 1) % Len(OrgNames)) + 1]

TsNaive == Some([day |-> 1, hour |-> 0, tz |-> ""])            \* 01T00:00:00
TsUtc == Some([day |-> 2, hour |-> 0, tz |-> "Z"])             \* 02T00:00:00Z
TsPlus2 == Some([day |-> 2, hour |-> 1, tz |-> "+02:00"])      \* 02T01:00:00+02:00
TsJunk == Some([text |-> "not-a-date"])
TimestampInputs == {None, TsJunk, TsNaive, TsUtc, TsPlus2}

\* a nullable column: the key absent, the key present and NULL, or a value
OptionalInputs(value) == {<<FALSE, None>>, <<TRUE, None>>, <<TRUE, value>>}
WithOptional(dict, key, opt) ==
    IF opt[1]
    THEN [k \in DOMAIN dict \cup {key} |-> IF k = key THEN opt[2] ELSE dict[k]]
    ELSE Del(dict, key)

UserPayload(id) == Some([id |-> id, name |-> NameOf(id), email |-> NameOf(id)])
OrgPayload(id) == Some([id |-> id, name |-> OrgNameOf(id)])
LabelPayload(id) == Some([id |-> id, name |-> NameOf(id), color |-> "#ff0000"])

CommentRow(id, created_at, user) ==
    [id |-> id, content |-> "text", created_at |-> created_at, users |-> UserPayload(user)]
AssigneeRow(user) == [assigned_at |-> TsUtc, users |-> UserPayload(user)]

\* the lists of n rows whose i-th row is Row(i, c[i]) for a choice c[i] in Choices
ListsOf(Row(_, _), Choices, max) ==
    UNION {{[i \in 1..n |-> Row(i, c[i])] : c \in [1..n -> Choices]} : n \in 0..max}

CommentOfChoice(i, created_at) == CommentRow(i, created_at, 1)
CommentLists == ListsOf(CommentOfChoice, TimestampInputs, MaxComments)

\* a task_labels row: without the nested payload, with a null one, or with a label
LabelRowChoices == {<<"absent", 0>>, <<"null", 0>>} \cup {<<"label", id>> : id \in SrcIds}
LabelRowOfChoice(i, c) ==
    CASE c[1] = "absent" -> EmptyDict
      [] c[1] = "null" -> [labels |-> None]
      [] c[1] = "label" -> [labels |-> LabelPayload(c[2])]
LabelRowLists == ListsOf(LabelRowOfChoice, LabelRowChoices, MaxLabelRows)

AssigneeOfChoice(i, user) == AssigneeRow(user)
AssigneeLists == ListsOf(AssigneeOfChoice, SrcIds, MaxAssignees)

TaskRecord(id, project_id, status, description, due_date, assignees, label_rows, comments) ==
    WithOptional(
        WithOptional(
            [id |-> id, project_id |-> project_id, title |-> "task", status |-> status,
             priority |-> "high", created_at |-> TsUtc, updated_at |-> TsUtc,
             description |-> None, due_date |-> None,
             task_assignees |-> assignees, task_labels |-> label_rows,
             comments |-> comments],
            "description", description),
        "due_date", due_date)

\* One list varies at a time; description and due_date vary with each.
TaskInputs ==
    UNION {
        {TaskRecord(1, 1, "todo", d, due, <<>>, <<>>, cs) : cs \in CommentLists}
        \cup {TaskRecord(1, 1, "todo", d, due, <<AssigneeRow(1)>>, ls,
                         <<CommentRow(1, TsUtc, 2)>>) : ls \in LabelRowLists}
        \cup {TaskRecord(1, 1, "todo", d, due, as, <<>>, <<>>) : as \in AssigneeLists}
        : d \in OptionalInputs(Some("text")), due \in OptionalInputs(TsUtc) }

\* an org_members row: the organization payload present, null or absent
MembershipChoices ==
    {<<org, role, "org">> : org \in SrcIds, role \in {"admin", "member"}}
    \cup {<<org, "member", p>> : org \in SrcIds, p \in {"null", "absent"}}
MembershipOfChoice(i, c) ==
    LET row == [org_id |-> c[1], role |-> c[2], joined_at |-> TsUtc,
                organizations |-> IF c[3] = "null" THEN None ELSE OrgPayload(c[1])]
    IN  IF c[3] = "absent" THEN Del(row, "organizations") ELSE row
MembershipLists == ListsOf(MembershipOfChoice, MembershipChoices, MaxMemberships)

UserRecord(id, memberships) ==
    [id |-> id, email |-> NameOf(id), name |-> NameOf(id), created_at |-> TsUtc,
     org_members |-> memberships]
UserInputs == {UserRecord(1, ms) : ms \in MembershipLists}

ProjectRecord(id, org_id, description) ==
    WithOptional(
        [id |-> id, org_id |-> org_id, name |-> "project", status |-> "active",
         created_at |-> TsUtc, description |-> None, organizations |-> OrgPayload(org_id)],
        "description", description)

\* the tasks handed to transform_project: of this and of other projects
PlainTaskKinds ==
    {<<"todo", <<TRUE, None>>, 0>>,
     <<"completed", <<TRUE, Some("text")>>, 0>>,
     <<"in_progress", <<TRUE, None>>, MaxComments>>,
     <<"completed", <<TRUE, None>>, MaxComments>>}
PlainTaskChoices ==
    {<<p, kind[1], kind[2], kind[3]>> : p \in {1, MaxSrcId}, kind \in PlainTaskKinds}
PlainTaskOfChoice(i, c) ==
    TaskRecord(i, c[1], c[2], c[3], <<TRUE, None>>, <<>>, <<>>,
               [k \in 1..c[4] |-> CommentRow(MaxComments * (i - 1) + k, TsUtc, 1)])
PlainTaskLists == ListsOf(PlainTaskOfChoice, PlainTaskChoices, MaxTasks)

ProjectInputs ==
    {[project |-> ProjectRecord(1, 2, d), tasks |-> ts] :
        d \in OptionalInputs(Some("text")), ts \in PlainTaskLists}

InitTransform ==
    /\ NoRun
    /\ id_mapper = IDMapper
    /\ calls = {}
    /\ \/ pc = "task" /\ arg \in TaskInputs
       \/ pc = "user" /\ arg \in UserInputs
       \/ pc = "project" /\ arg \in ProjectInputs
    /\ ret = Idle
    /\ source_data = None
    /\ mongo_data = None
    /\ db = EmptyDb
    /\ all_stats = <<>>
    /\ write_rejects = {}
    /\ batch_size = DefaultBatchSize
    /\ clear_existing = FALSE

TransformReturns(r, done) ==
    /\ id_mapper' = r.m
    /\ ret' = [raised |-> r.raised, doc |-> r.doc]
    /\ pc' = done
    /\ UNCHANGED <<calls, arg, source_data, mongo_data, db, all_stats, write_rejects,
                   batch_size, clear_existing>>
    /\ UNCHANGED run_vars

CallTransformTask ==
    /\ pc = "task"
    /\ TransformReturns(transform_task(arg, id_mapper, <<>>), "task_done")

CallTransformUser ==
    /\ pc = "user"
    /\ TransformReturns(transform_user(arg, id_mapper), "user_done")

CallTransformProject ==
    /\ pc = "project"
    /\ TransformReturns(transform_project(arg.project, arg.tasks, id_mapper, <<>>),
                        "project_done")

NextTransform ==
    \/ CallTransformTask
    \/ CallTransformUser
    \/ CallTransformProject

SpecTransform == InitTransform /\ [][NextTransform]_vars

\* The key a comment document is ordered by: its created_at, None before all.
created_at_instant(doc) ==
    IF doc.created_at = None THEN -1 ELSE datetime_instant(doc.created_at[1])

NoNullLabelPayload(task) ==
    \A i \in DOMAIN task.task_labels :
        Has(task.task_labels[i], "labels") => task.task_labels[i].labels # None

\* C5: for every task, also one that mixes timezone-aware timestamps with
\* absent or unparseable ones, transform_task returns a comments array sorted
\* non-decreasing by created_at with the comments without a timestamp first.
C5_CommentsSorted ==
    (pc = "task_done" /\ NoNullLabelPayload(arg)) =>
        /\ ret.raised = ""
        /\ Len(ret.doc.comments) = Len(arg.comments)
        /\ \A i \in DOMAIN ret.doc.comments, j \in DOMAIN ret.doc.comments :
              i < j =>
                /\ created_at_instant(ret.doc.comments[i])
                      <= created_at_instant(ret.doc.comments[j])
                /\ ret.doc.comments[j].created_at = None
                      => ret.doc.comments[i].created_at = None

\* the description of a document against the description of its source record
DescriptionCarried(record, doc) ==
    IF Get(record, "description", None) = None
    THEN ~Has(doc, "description")
    ELSE Has(doc, "description") /\ doc.description = record.description

\* C6: a task or project record whose description is null or missing yields a
\* document without a description key; a non-null description is copied.
C6_DescriptionOmittedWhenNull ==
    /\ (pc = "task_done" /\ ret.raised = "") => DescriptionCarried(arg, ret.doc)
    /\ (pc = "project_done" /\ ret.raised = "") =>
          /\ DescriptionCarried(arg.project, ret.doc)
          /\ \A i \in DOMAIN ret.doc.tasks :
                \E k \in DOMAIN arg.tasks :
                    /\ arg.tasks[k].id = ret.doc.tasks[i].pg_id
                    /\ DescriptionCarried(arg.tasks[k], ret.doc.tasks[i])
\* A project with an explicit null description was transformed, and it embeds
\* a task that has a description.
C6_Witness ==
    /\ pc = "project_done" /\ ret.raised = ""
    /\ Has(arg.project, "description") /\ arg.project.description = None
    /\ \E i \in DOMAIN ret.doc.tasks : Has(ret.doc.tasks[i], "description")

\* C7: a task whose due_date is null or absent yields a task document
\* without a due_date key.
C7_DueDateOmittedWhenNull ==
    (pc = "task_done" /\ ret.raised = "" /\ Get(arg, "due_date", None) = None) =>
        ~Has(ret.doc, "due_date")

HasLabelPayload(task_label) ==
    /\ Has(task_label, "labels")
    /\ task_label.labels # None
    /\ Has(task_label.labels[1], "id")

\* C8: with a task_labels row whose nested label payload is null,
\* transform_task completes, that row adds no entry to labels, every other
\* label row is embedded, and comment_count and assignee_count are unaffected.
C8_NullLabelPayloadSkipped ==
    (pc = "task_done" /\ ~NoNullLabelPayload(arg)) =>
        /\ ret.raised = ""
        /\ LET embedded == SelectSeq(arg.task_labels, HasLabelPayload)
           IN  /\ Len(ret.doc.labels) = Len(embedded)
               /\ \A i \in DOMAIN embedded :
                     /\ ret.doc.labels[i].name = embedded[i].labels[1].name
                     /\ ret.doc.labels[i].label_id
                           = id_mapper.label_ids[embedded[i].labels[1].id]
        /\ ret.doc.comment_count = Len(arg.comments)
        /\ ret.doc.assignee_count = Len(arg.task_assignees)

\* C9: transform_user yields one organizations entry per org_members row, in
\* source order, with org_id the mapper's id for the row's org_id, the row's
\* role, and org_name the name in the row's nested organization payload.
C9_UserOrganizations ==
    (pc = "user_done" /\ ret.raised = "") =>
        /\ Len(ret.doc.organizations) = Len(arg.org_members)
        /\ \A i \in DOMAIN arg.org_members :
              /\ arg.org_members[i].org_id \in DOMAIN id_mapper.org_ids
              /\ ret.doc.organizations[i].org_id
                    = id_mapper.org_ids[arg.org_members[i].org_id]
              /\ ret.doc.organizations[i].role = arg.org_members[i].role
              /\ Has(arg.org_members[i], "organizations") =>
                    ret.doc.organizations[i].org_name
                        = arg.org_members[i].organizations[1].name
\* A user with two memberships of different organizations and roles was
\* transformed.
C9_Witness ==
    /\ pc = "user_done" /\ ret.raised = ""
    /\ Len(arg.org_members) = 2
    /\ arg.org_members[1].org_id = 2 /\ arg.org_members[2].org_id = 1
    /\ arg.org_members[1].role = "admin" /\ arg.org_members[2].role = "member"
    /\ ret.doc.organizations[1].org_name = OrgNameOf(2)

(***************************************************************************)
(* The pipeline: transform_all_data on an extracted dataset, then          *)
(* load_all_data into an empty target.  A dataset has organizations,       *)
(* users, labels and projects with the ids 1..n of their type, and tasks   *)
(* of these projects or of a project that was not extracted; `shift`       *)
(* varies which organization, user and label each record refers to (a      *)
(* reference can name a source id that no extracted record has).           *)
(***************************************************************************)
Rot(x) == ((x - 1) % MaxSrcId) + 1

OrgRecord(id) ==
    [id |-> id, name |-> OrgNameOf(id), created_at |-> TsUtc, org_members |-> <<>>]
LabelRecord(id, org_id) ==
    [id |-> id, org_id |-> org_id, name |-> NameOf(id), color |-> "#ff0000",
     created_at |-> TsUtc]

\* task i of project c[1], under shift c[2]
DatasetTaskOfChoice(i, c) ==
    TaskRecord(i, c[1], IF i = 1 THEN "completed" ELSE "todo",
               <<TRUE, None>>, <<TRUE, None>>,
               <<AssigneeRow(Rot(i + c[2]))>>,
               <<[labels |-> LabelPayload(Rot(i + c[2]))]>>,
               <<CommentRow(i, TsUtc, Rot(i + c[2] + 1))>>)

Dataset(n_org, n_user, n_label, n_proj, shift, tasks) ==
    [organizations |-> [i \in 1..n_org |-> OrgRecord(i)],
     users |-> [i \in 1..n_user |->
                   UserRecord(i, <<MembershipOfChoice(1, <<Rot(i + shift), "member", "org">>)>>)],
     labels |-> [i \in 1..n_label |-> LabelRecord(i, Rot(i + shift))],
     projects |-> [i \in 1..n_proj |-> ProjectRecord(i, Rot(i + shift), <<TRUE, None>>)],
     tasks |-> tasks]

\* the project ids the tasks of a source with n projects name: the projects
\* extracted, and one that is not among them (nothing in the extract relates
\* the two queries)
TaskProjectIds(n) == 1..(IF n < MaxSrcId THEN n + 1 ELSE MaxSrcId)

Datasets ==
    UNION {
        {Dataset(n[1], n[2], n[3], n[4], shift, tasks) :
            tasks \in ListsOf(DatasetTaskOfChoice, TaskProjectIds(n[4]) \X {shift},
                              MaxTasks)}
        : n \in (0..MaxSrcId) \X (0..MaxSrcId) \X (0..MaxSrcId) \X (0..MaxSrcId),
          shift \in 0..(MaxSrcId - 1) }

InitPipeline ==
    /\ NoRun
    /\ id_mapper = IDMapper
    /\ calls = {}
    /\ arg = None
    /\ ret = Idle
    /\ source_data \in Datasets
    /\ mongo_data = None
    /\ db = EmptyDb
    /\ all_stats = <<>>
    /\ write_rejects = {}
    /\ batch_size = DefaultBatchSize
    /\ clear_existing = FALSE
    /\ pc = "transform"

\* what the transform and load phases leave alone of the run's state
PipelineFrame ==
    UNCHANGED <<dry_run, load_results, trace, pg, faults, returned, exit_code, report,
                all_records, offset, page_batch_num>>

\* transform_phase: transform_all_data(source_data); a raise leaves no
\* documents and is recorded in stats["errors"] as "Transformation: ..."
TransformAllData ==
    /\ pc = "transform"
    /\ LET r == transform_all_data(source_data)
       IN  /\ id_mapper' = r.m
           /\ mongo_data' = Del(r, "m")
           /\ errors' = IF r.raised = "" THEN errors ELSE Append(errors, "Transformation")
           /\ pc' = IF r.raised = "" THEN "load" ELSE "transform_failed"
    /\ UNCHANGED <<calls, arg, ret, source_data, db, all_stats, write_rejects,
                   batch_size, clear_existing, mongo_client>>
    /\ PipelineFrame

\* the target refuses nothing, or refuses the document with the first ObjectId
RejectChoices == {{}, {ObjectId(0)}}

\* load_phase: load_all_data(mongo_data, batch_size, clear_existing); the
\* target client is created and cached when the load opens a connection; a
\* raise is recorded in stats["errors"] as "Loading: ..."
LoadAllData ==
    /\ pc = "load"
    /\ \E size \in 1..MaxBatchSize, clear \in BOOLEAN, rejects \in RejectChoices :
          LET r == load_all_data(db, mongo_data, size, clear, Server(rejects, {}, {}))
          IN  /\ db' = r.db
              /\ all_stats' = r.results
              /\ batch_size' = size
              /\ clear_existing' = clear
              /\ write_rejects' = rejects
              /\ errors' = IF r.raised = "" THEN errors ELSE Append(errors, "Loading")
              /\ mongo_client' = IF load_connects(mongo_data, clear)
                                 THEN get_mongo_client(mongo_client) ELSE mongo_client
    /\ pc' = "done"
    /\ UNCHANGED <<id_mapper, calls, arg, ret, source_data, mongo_data>>
    /\ PipelineFrame

\* the migration is run a second time on the unchanged source:
\* transform_all_data(source_data) with a new IDMapper
TransformAllDataAgain ==
    /\ pc = "done"
    /\ LET r == transform_all_data_from(source_data, LaterIDMapper(id_mapper.oids))
       IN  /\ id_mapper' = r.m
           /\ mongo_data' = Del(r, "m")
           /\ errors' = IF r.raised = "" THEN errors ELSE Append(errors, "Transformation")
           /\ pc' = IF r.raised = "" THEN "load_again" ELSE "transform_failed"
    /\ UNCHANGED <<calls, arg, ret, source_data, db, all_stats, write_rejects,
                   batch_size, clear_existing, mongo_client>>
    /\ PipelineFrame

\* load_all_data(mongo_data, batch_size, clear_existing) of the second run,
\* with the settings of the first
LoadAllDataAgain ==
    /\ pc = "load_again"
    /\ LET r == load_all_data(db, mongo_data, batch_size, clear_existing,
                              Server(write_rejects, {}, {}))
       IN  /\ db' = r.db
           /\ all_stats' = r.results
           /\ errors' = IF r.raised = "" THEN errors ELSE Append(errors, "Loading")
           /\ mongo_client' = IF load_connects(mongo_data, clear_existing)
                              THEN get_mongo_client(mongo_client) ELSE mongo_client
    /\ pc' = "done_again"
    /\ UNCHANGED <<id_mapper, calls, arg, ret, source_data, mongo_data, write_rejects,
                   batch_size, clear_existing>>
    /\ PipelineFrame

NextPipeline ==
    \/ TransformAllData
    \/ LoadAllData

SpecPipeline == InitPipeline /\ [][NextPipeline]_vars

Transformed == pc \in {"load", "done"} /\ mongo_data.raised = ""

\* the source tasks of one project, in the task list's order
TasksOfProject(tasks, project_id) ==
    SelectSeq(tasks, LAMBDA t : t.project_id = project_id)

\* in how many project documents, and how often, a task is embedded
RECURSIVE EmbeddingsOf(_, _)
EmbeddingsOf(pg_id, projects) ==
    IF projects = <<>> THEN 0
    ELSE Cardinality({i \in DOMAIN Head(projects).tasks : Head(projects).tasks[i].pg_id = pg_id})
         + EmbeddingsOf(pg_id, Tail(projects))

\* the task's project is in the project list
OfListedProject(task) ==
    \E p \in DOMAIN source_data.projects : source_data.projects[p].id = task.project_id

\* C3 (amended): the tasks embedded in a project's document are exactly the
\* tasks of the full task list whose project_id is the project's id,
\* transformed and in the list's order; a task of a project of the list is
\* embedded in exactly one document, and a task whose project is not in the
\* list is embedded in none.
C3_TaskPartitionOfListed ==
    Transformed =>
        /\ Len(mongo_data.projects) = Len(source_data.projects)
        /\ \A p \in DOMAIN source_data.projects :
              LET own == TasksOfProject(source_data.tasks, source_data.projects[p].id)
                  doc == mongo_data.projects[p]
              IN  /\ doc.pg_id = source_data.projects[p].id
                  /\ Len(doc.tasks) = Len(own)
                  /\ \A i \in DOMAIN own :
                        doc.tasks[i] = transform_task(own[i], id_mapper, <<>>).doc
        /\ \A t \in DOMAIN source_data.tasks :
              EmbeddingsOf(source_data.tasks[t].id, mongo_data.projects)
                  = IF OfListedProject(source_data.tasks[t]) THEN 1 ELSE 0

\* Of two tasks handed over with one project, the first belongs to a project
\* that is not in the list: the project's document embeds the second only.
C3_WitnessDropped ==
    /\ Transformed
    /\ Len(source_data.projects) = 1 /\ Len(source_data.tasks) = 2
    /\ source_data.tasks[1].project_id = 2 /\ source_data.tasks[2].project_id = 1
    /\ Len(mongo_data.projects[1].tasks) = 1 /\ mongo_data.projects[1].tasks[1].pg_id = 2

\* C3 (as stated): the tasks embedded in a project's document are exactly the
\* tasks of the full task list whose project_id is the project's id,
\* transformed and in the list's order; every task of the list is embedded in
\* exactly one document, none is dropped.
C3_TaskPartition ==
    Transformed =>
        /\ Len(mongo_data.projects) = Len(source_data.projects)
        /\ \A p \in DOMAIN source_data.projects :
              LET own == TasksOfProject(source_data.tasks, source_data.projects[p].id)
                  doc == mongo_data.projects[p]
              IN  /\ doc.pg_id = source_data.projects[p].id
                  /\ Len(doc.tasks) = Len(own)
                  /\ \A i \in DOMAIN own :
                        doc.tasks[i] = transform_task(own[i], id_mapper, <<>>).doc
        /\ \A t \in DOMAIN source_data.tasks :
              EmbeddingsOf(source_data.tasks[t].id, mongo_data.projects) = 1
\* Two projects were transformed, the first list entry belongs to the second
\* project and the second entry to the first.
C3_Witness ==
    /\ Transformed
    /\ Len(source_data.projects) = 2 /\ Len(source_data.tasks) = 2
    /\ source_data.tasks[1].project_id = 2 /\ source_data.tasks[2].project_id = 1
    /\ Len(mongo_data.projects[1].tasks) = 1 /\ mongo_data.projects[1].tasks[1].pg_id = 2

\* C4: for a source whose tasks are all of projects of the source, after
\* transform_all_data and load_all_data into an empty target that refuses no
\* document, the target holds as many organization, user, label and
\* project documents as the source has rows, and the embedded task arrays sum
\* to the number of source tasks: every count check passes.
C4_RoundTripCounts ==
    (/\ pc = "done" /\ write_rejects = {}
     /\ \A t \in DOMAIN source_data.tasks : OfListedProject(source_data.tasks[t])) =>
        /\ validate_count(source_data.organizations, db.organizations)
        /\ validate_count(source_data.users, db.users)
        /\ validate_count(source_data.labels, db.labels)
        /\ validate_count(source_data.projects, db.projects)
        /\ validate_task_count(source_data.tasks, db.projects)
        /\ all_stats.total_failed = 0
\* A dataset with two rows of every type, its tasks in different projects, was
\* loaded one document per batch.
C4_Witness ==
    /\ pc = "done" /\ write_rejects = {} /\ batch_size = 1
    /\ Len(db.organizations) = 2 /\ Len(db.users) = 2 /\ Len(db.labels) = 2
    /\ Len(db.projects) = 2
    /\ Len(db.projects[1].tasks) = 1 /\ Len(db.projects[2].tasks) = 1

\* the _ids of the top-level documents that carry a source id
IdsOf(docs, pg_id) == {docs[i]._id : i \in {j \in DOMAIN docs : docs[j].pg_id = pg_id}}
SourceOf(records, pg_id) == CHOOSE r \in {records[i] : i \in DOMAIN records} : r.id = pg_id

TaskRefsResolve(task, doc) ==
    /\ \A j \in DOMAIN doc.assignees :
          \A id \in IdsOf(mongo_data.users, task.task_assignees[j].users[1].id) :
              doc.assignees[j].user_id = id
    /\ \A j \in DOMAIN doc.comments :
          LET comment == SourceOf(task.comments, doc.comments[j].pg_id)
          IN  \A id \in IdsOf(mongo_data.users, comment.users[1].id) :
                  doc.comments[j].user_id = id
    /\ LET rows == SelectSeq(task.task_labels, HasLabelPayload)
       IN  \A j \in DOMAIN doc.labels :
              \A id \in IdsOf(mongo_data.labels, rows[j].labels[1].id) :
                  doc.labels[j].label_id = id

\* C10: in the output of one transform_all_data call every reference equals
\* the _id of the top-level document of the referenced type with the same
\* source id: project.org_id, label.org_id, user.organizations[].org_id against
\* organizations; assignee and comment user_id against users; labels[].label_id
\* against labels.
C10_ReferencesResolve ==
    Transformed =>
        /\ \A i \in DOMAIN mongo_data.projects :
              \A id \in IdsOf(mongo_data.organizations, source_data.projects[i].org_id) :
                  mongo_data.projects[i].org_id = id
        /\ \A i \in DOMAIN mongo_data.labels :
              \A id \in IdsOf(mongo_data.organizations, source_data.labels[i].org_id) :
                  mongo_data.labels[i].org_id = id
        /\ \A i \in DOMAIN mongo_data.users :
              \A j \in DOMAIN mongo_data.users[i].organizations :
                  \A id \in IdsOf(mongo_data.organizations,
                                  source_data.users[i].org_members[j].org_id) :
                      mongo_data.users[i].organizations[j].org_id = id
        /\ \A i \in DOMAIN mongo_data.projects :
              \A t \in DOMAIN mongo_data.projects[i].tasks :
                  TaskRefsResolve(SourceOf(source_data.tasks,
                                           mongo_data.projects[i].tasks[t].pg_id),
                                  mongo_data.projects[i].tasks[t])
\* Every kind of reference names an extracted record: label 1 and project 1
\* refer to organization 2, user 1 is a member of organization 2, and task 1 is
\* assigned to user 2, commented by user 1 and labelled with label 2.
C10_Witness ==
    /\ Transformed
    /\ Len(mongo_data.organizations) = 2 /\ Len(mongo_data.users) = 2
    /\ Len(mongo_data.labels) = 2 /\ Len(mongo_data.projects) >= 1
    /\ source_data.labels[1].org_id = 2 /\ source_data.projects[1].org_id = 2
    /\ source_data.users[1].org_members[1].org_id = 2
    /\ Len(mongo_data.projects[1].tasks) >= 1
    /\ mongo_data.projects[1].tasks[1].pg_id = 1
    /\ mongo_data.projects[1].tasks[1].assignees[1].user_id = mongo_data.users[2]._id
    /\ mongo_data.projects[1].tasks[1].labels[1].label_id = mongo_data.labels[2]._id

(***************************************************************************)
(* EXTRACTION (extract.py) and the ORCHESTRATOR (migrate.py).  One run of  *)
(* main(): the confirmation prompt, MigrationOrchestrator.run with its     *)
(* phases, handlers and finally block, and the process exit.               *)
(***************************************************************************)
\* the tables extract_all_data reads, in the order of its five queries
ExtractOrder == <<"organizations", "users", "labels", "projects", "tasks">>

\* one event of the trace
Event(ev, name, detail) == [ev |-> ev, name |-> name, detail |-> detail]

\* extract_all_data, lines 548-567: the tables from `names` on; a query that
\* raises ends the extraction (the exception is re-raised, no data returned).
RECURSIVE extract_from(_, _, _, _, _)
extract_from(tables, names, fails_at, data, queries) ==
    IF names = <<>>
    THEN [raised |-> "", data |-> data, queries |-> queries]
    ELSE IF Head(names) = fails_at
    THEN [raised |-> "APIError", data |-> None,
          queries |-> Append(queries, Event("query", Head(names), <<>>))]
    ELSE extract_from(tables, Tail(names), fails_at,
                      (Head(names) :> tables[Head(names)]) @@ data,
                      Append(queries, Event("query", Head(names), <<>>)))

extract_all_data(tables, fails_at) == extract_from(tables, ExtractOrder, fails_at, <<>>, <<>>)

\* the operations of a load as trace events
RECURSIVE OperationEvents(_)
OperationEvents(operations) ==
    IF operations = <<>> THEN <<>>
    ELSE <<Event(Head(operations).op, Head(operations).collection, Head(operations).ids)>>
         \o OperationEvents(Tail(operations))

\* The source databases of the runs: two rows of every type, one row of every
\* type, no rows, a user without email, a task without title.
TwoOfEach ==
    Dataset(2, 2, 2, 2, 1,
            <<DatasetTaskOfChoice(1, <<2, 1>>), DatasetTaskOfChoice(2, <<1, 1>>)>>)
OneOfEach == Dataset(1, 1, 1, 1, 0, <<DatasetTaskOfChoice(1, <<1, 0>>)>>)
NoRows == Dataset(0, 0, 0, 0, 0, <<>>)
UserWithoutEmail == [TwoOfEach EXCEPT !.users[2] = Del(@, "email")]
TaskWithoutTitle == [OneOfEach EXCEPT !.tasks[1] = Del(@, "title")]
RunDatasets == {TwoOfEach, OneOfEach, NoRows, UserWithoutEmail, TaskWithoutTitle}

\* the target before the run: empty, or holding a document of an earlier load
OldDocument == [_id |-> 99, pg_id |-> 9, name |-> "old"]
RunTargets == {EmptyDb, [EmptyDb EXCEPT !.organizations = <<OldDocument>>]}

\* The migration run twice on an unchanged source: transform and load, then
\* transform and load again with the same settings, into a target that is
\* empty or holds a document of an earlier load.
InitRerun ==
    /\ NoRun
    /\ id_mapper = IDMapper
    /\ calls = {}
    /\ arg = None
    /\ ret = Idle
    /\ source_data \in RunDatasets
    /\ mongo_data = None
    /\ db \in RunTargets
    /\ all_stats = <<>>
    /\ write_rejects = {}
    /\ batch_size = DefaultBatchSize
    /\ clear_existing = FALSE
    /\ pc = "transform"

NextRerun ==
    \/ TransformAllData
    \/ LoadAllData
    \/ TransformAllDataAgain
    \/ LoadAllDataAgain

SpecRerun == InitRerun /\ [][NextRerun]_vars

\* the documents handed to upsert_collection_bulk: of an earlier load, new,
\* changed, and with fewer fields than the stored document
NewDocument == [_id |-> 98, pg_id |-> 8, name |-> "new"]
RenamedDocument == [OldDocument EXCEPT !.name = "renamed"]
PartialDocument == [_id |-> 99, name |-> "partial"]
UpsertDocuments ==
    {<<>>, <<OldDocument>>, <<NewDocument>>, <<RenamedDocument, NewDocument>>,
     <<PartialDocument>>, <<NewDocument, OldDocument, RenamedDocument>>}
UpsertRejects == {{}, {98}}
UpsertRaises == {{}, {<<"organizations", 1>>}}

\* upsert_collection_bulk("organizations", documents, batch_size); the client
\* is created and cached when documents are sent
UpsertCollectionBulk ==
    /\ pc = "target"
    /\ \E documents \in UpsertDocuments, size \in 1..MaxBatchSize,
          rejects \in UpsertRejects, raises \in UpsertRaises :
          LET r == upsert_collection_bulk(db.organizations, "organizations", documents,
                                          size, Server(rejects, raises, {}))
          IN  /\ db' = [db EXCEPT !.organizations = r.collection]
              /\ all_stats' = r.stats
              /\ batch_size' = size
              /\ write_rejects' = rejects
              /\ mongo_client' = IF documents = <<>> THEN mongo_client
                                 ELSE get_mongo_client(mongo_client)
    /\ UNCHANGED <<id_mapper, calls, arg, ret, source_data, mongo_data, clear_existing,
                   pc, errors>>
    /\ PipelineFrame

\* MongoSchemaManager.drop_database() with the answer typed at its prompt; the
\* manager has a client of its own
DropDatabase ==
    /\ pc = "target"
    /\ \E response \in Responses : db' = drop_database(db, response)
    /\ UNCHANGED <<id_mapper, calls, arg, ret, source_data, mongo_data, all_stats,
                   write_rejects, batch_size, clear_existing, pc, errors, mongo_client>>
    /\ PipelineFrame

\* The target written to outside a migration run
InitTarget ==
    /\ NoRun
    /\ id_mapper = IDMapper
    /\ calls = {}
    /\ arg = None
    /\ ret = Idle
    /\ source_data = None
    /\ mongo_data = None
    /\ db \in RunTargets
    /\ all_stats = <<>>
    /\ write_rejects = {}
    /\ batch_size = DefaultBatchSize
    /\ clear_existing = FALSE
    /\ pc = "target"

NextTarget ==
    \/ UpsertCollectionBulk
    \/ DropDatabase

SpecTarget == InitTarget /\ [][NextTarget]_vars

\* an upsert never leaves two documents with one _id, and what it reports adds
\* up to no more than it was given
UpsertAccounts ==
    /\ \A i, j \in DOMAIN db.organizations :
          db.organizations[i]._id = db.organizations[j]._id => i = j
    /\ all_stats # <<>> =>
          all_stats.inserted_count + all_stats.failed_count <= all_stats.total_documents

RunPhases == <<"test_connections", "extract_phase", "transform_phase", "load_phase">>
RaisePoints == {RunPhases[i] : i \in DOMAIN RunPhases} \cup {"print_final_summary"}

\* What goes wrong in one run: nothing; a failed connection test (the source
\* or the target reported unreachable, or the test itself raising); a source
\* query that raises; Ctrl-C (KeyboardInterrupt) or an exception outside the
\* phase's own try block, on entry of a phase or of the final summary; a bulk
\* write that raises as a whole; a delete_many that raises.
Fault(kind, at, raises, delete_raises) ==
    [kind |-> kind, at |-> at, raises |-> raises, delete_raises |-> delete_raises]
FaultChoices ==
    {Fault("none", "", {}, {})}
    \cup {Fault("connection", which, {}, {}) : which \in {"supabase", "mongodb", "exception"}}
    \cup {Fault("query", ExtractOrder[i], {}, {}) : i \in DOMAIN ExtractOrder}
    \cup {Fault(kind, at, {}, {}) : kind \in {"KeyboardInterrupt", "Exception"},
                                      at \in RaisePoints}
    \cup {Fault("none", "", {<<"users", 1>>}, {}),
          Fault("none", "", {<<"organizations", 1>>, <<"projects", 1>>}, {}),
          Fault("none", "", {}, {"labels"})}

\* input("Proceed with migration? (yes/no)"): the line typed, or the exception
\* input raises (Ctrl-C at the prompt, end of input)
Answers ==
    {[raised |-> "", response |-> response] : response \in Responses}
    \cup {[raised |-> e, response |-> <<>>] : e \in {"KeyboardInterrupt", "EOFError"}}

InitRun ==
    /\ id_mapper = IDMapper
    /\ calls = {}
    /\ arg = None
    /\ ret = Idle
    /\ source_data = None
    /\ mongo_data = None
    /\ db \in RunTargets
    /\ all_stats = <<>>
    /\ write_rejects \in RejectChoices
    /\ batch_size \in 1..MaxBatchSize
    /\ clear_existing \in BOOLEAN
    /\ pc = "main"
    /\ dry_run \in BOOLEAN
    /\ errors = <<>>
    /\ load_results = None
    /\ trace = <<>>
    /\ mongo_client = None
    /\ pg \in RunDatasets
    /\ faults \in FaultChoices
    /\ (write_rejects # {} => faults = Fault("none", "", {}, {}))
    /\ returned = None
    /\ exit_code = None
    /\ report = <<>>
    /\ all_records = <<>>
    /\ offset = 0
    /\ page_batch_num = 1

\* the variables a step of run() leaves alone unless it names them
RunFrame == UNCHANGED <<id_mapper, calls, arg, ret, all_stats, write_rejects, batch_size,
                        clear_existing, dry_run, pg, faults, report,
        all_records, offset, page_batch_num>>

\* an exception leaves the try block of run() on entry of `at`
RaisesAt(at) == faults.kind \in {"KeyboardInterrupt", "Exception"} /\ faults.at = at

\* control moves to the handler of run() for the exception raised at `at`
Propagate(at) ==
    /\ pc' = IF faults.kind = "KeyboardInterrupt"
             THEN "except_KeyboardInterrupt" ELSE "except_Exception"
    /\ UNCHANGED <<source_data, mongo_data, db, errors, load_results, mongo_client,
                   returned, exit_code>>

\* a run() that reports success where the code returns False
ReturnFalse_reports_success == returned' = Some(TRUE) /\ pc' = "finally"

\* run() returns False from inside the try block: the finally block is next
ReturnFalse == returned' = Some(FALSE) /\ pc' = "finally"

\* main, lines 456-469: a dry run starts at once; otherwise the operator is
\* asked.  An answer that is not "yes" in lower case, or Ctrl-C at the
\* prompt, exits with status 0; any other exception of input() (EOFError at
\* the end of the input) is not caught and ends the process with status 1.
MainConfirm ==
    /\ pc = "main"
    /\ \/ /\ dry_run
          /\ pc' = "run" /\ exit_code' = exit_code /\ trace' = trace
       \/ /\ ~dry_run
          /\ \E answer \in Answers :
                /\ trace' = Append(trace, Event("input", answer.raised, answer.response))
                /\ IF answer.raised = "KeyboardInterrupt"
                   THEN pc' = "exited" /\ exit_code' = Some(0)
                   ELSE IF answer.raised # ""
                   THEN pc' = "exited" /\ exit_code' = Some(1)
                   ELSE IF lower(answer.response) # Yes
                   THEN pc' = "exited" /\ exit_code' = Some(0)
                   ELSE pc' = "run" /\ exit_code' = exit_code
    /\ UNCHANGED <<source_data, mongo_data, db, errors, load_results, mongo_client,
                   returned>>
    /\ RunFrame

\* config.test_supabase_connection: the source is asked for one organization
\* id, with the exact count
ConnectionQuery == Event("query", "organizations", <<"id", "count">>)

\* run, lines 323-326, with MigrationOrchestrator.test_connections: both
\* connections are tested (the source is queried, the target client is
\* created and cached); a failed test ends the run with False.  A source
\* that cannot be reached fails at the query or before it (no client, no
\* query sent); a target that cannot be reached fails at the ping (the client
\* stays cached, config.py:131-143) or before it (MONGO_URI unset or
\* MongoClient(...) raising: no client).  Only an exception of the test is
\* recorded in stats["errors"] ("Connection test: ..."), here one raised
\* before either connection is tried; a false result is logged.
TestConnections ==
    /\ pc = "run"
    /\ IF RaisesAt("test_connections")
       THEN /\ trace' = Append(trace, Event("phase", "test_connections", <<>>))
            /\ Propagate("test_connections")
       ELSE IF faults.kind = "connection" /\ faults.at = "exception"
       THEN /\ trace' = Append(trace, Event("phase", "test_connections", <<>>))
            /\ errors' = Append(errors, "Connection test")
            /\ ReturnFalse
            /\ UNCHANGED <<source_data, mongo_data, db, load_results, mongo_client,
                           exit_code>>
       ELSE /\ \/ trace' = trace \o <<Event("phase", "test_connections", <<>>),
                                       ConnectionQuery>>
               \/ /\ faults.kind = "connection" /\ faults.at = "supabase"
                  /\ trace' = Append(trace, Event("phase", "test_connections", <<>>))
            /\ \/ mongo_client' = get_mongo_client(mongo_client)
               \/ /\ faults.kind = "connection" /\ faults.at = "mongodb"
                  /\ mongo_client' = mongo_client
            /\ IF faults.kind = "connection"
               THEN ReturnFalse
               ELSE pc' = "extract" /\ returned' = returned
            /\ UNCHANGED <<source_data, mongo_data, db, errors, load_results, exit_code>>
    /\ RunFrame

\* run, lines 329-332, with extract_phase: extract_all_data; an exception is
\* recorded as "Extraction: ..." and the run ends with False.
ExtractPhase ==
    /\ pc = "extract"
    /\ IF RaisesAt("extract_phase")
       THEN /\ trace' = Append(trace, Event("phase", "extract_phase", <<>>))
            /\ Propagate("extract_phase")
       ELSE LET r == extract_all_data(pg, IF faults.kind = "query" THEN faults.at ELSE "")
            IN  /\ trace' = Append(trace, Event("phase", "extract_phase", <<>>)) \o r.queries
                /\ source_data' = r.data
                /\ IF r.raised # ""
                   THEN errors' = Append(errors, "Extraction") /\ ReturnFalse
                   ELSE errors' = errors /\ pc' = "transform" /\ returned' = returned
                /\ UNCHANGED <<mongo_data, db, load_results, mongo_client, exit_code>>
    /\ RunFrame

\* a transform phase that goes on to the load with whatever was transformed
\* before the exception, and records nothing
TransformPhase_ignores_failure ==
    /\ pc = "transform"
    /\ trace' = Append(trace, Event("phase", "transform_phase", <<>>))
    /\ IF RaisesAt("transform_phase")
       THEN Propagate("transform_phase") /\ UNCHANGED id_mapper
       ELSE LET r == transform_all_data(source_data)
            IN  /\ id_mapper' = r.m
                /\ mongo_data' = IF r.raised # "" THEN transform_all_data(NoRows)
                                 ELSE Del(r, "m")
                /\ errors' = errors /\ pc' = "load" /\ returned' = returned
                /\ UNCHANGED <<source_data, db, load_results, mongo_client, exit_code>>
    /\ UNCHANGED <<calls, arg, ret, all_stats, write_rejects, batch_size, clear_existing,
                   dry_run, pg, faults, report,
        all_records, offset, page_batch_num>>

\* run, lines 335-338, with transform_phase: transform_all_data; an exception
\* is recorded as "Transformation: ..." and the run ends with False.
TransformPhase ==
    /\ pc = "transform"
    /\ trace' = Append(trace, Event("phase", "transform_phase", <<>>))
    /\ IF RaisesAt("transform_phase")
       THEN Propagate("transform_phase") /\ UNCHANGED id_mapper
       ELSE LET r == transform_all_data(source_data)
            IN  /\ id_mapper' = r.m
                /\ IF r.raised # ""
                   THEN /\ mongo_data' = None
                        /\ errors' = Append(errors, "Transformation")
                        /\ ReturnFalse
                   ELSE /\ mongo_data' = Del(r, "m")
                        /\ errors' = errors /\ pc' = "load" /\ returned' = returned
                /\ UNCHANGED <<source_data, db, load_results, mongo_client, exit_code>>
    /\ UNCHANGED <<calls, arg, ret, all_stats, write_rejects, batch_size, clear_existing,
                   dry_run, pg, faults, report,
        all_records, offset, page_batch_num>>

\* load_phase, lines 219-229: the result of a dry run
dry_run_results(data) ==
    [total_documents |-> Len(data.organizations) + Len(data.users) + Len(data.labels)
                         + Len(data.projects),
     total_inserted |-> 0,
     total_failed |-> 0,
     success_rate |-> "N/A (dry run)",
     collections |-> EmptyDict]

\* load_phase, lines 230-246: load_all_data, whose result is kept in
\* stats["load_results"]; an exception is recorded as "Loading: ..." and the
\* run ends with False.  The load works with the client the connection test
\* has cached.
LoadPhaseWrites ==
    LET r == load_all_data(db, mongo_data, batch_size, clear_existing,
                           Server(write_rejects, faults.raises, faults.delete_raises))
    IN  /\ trace' = Append(trace, Event("phase", "load_phase", <<>>))
                     \o OperationEvents(r.operations)
        /\ db' = r.db
        /\ IF r.raised # ""
           THEN /\ load_results' = None /\ all_stats' = all_stats
                /\ errors' = Append(errors, "Loading")
                /\ ReturnFalse
           ELSE /\ load_results' = Some(r.results) /\ all_stats' = r.results
                /\ errors' = errors /\ pc' = "finish" /\ returned' = returned

\* a dry run that loads all the same
LoadPhaseDryRun_loads == LoadPhaseWrites

\* load_phase, lines 219-229: in a dry run nothing is sent to the target
LoadPhaseDryRun ==
    /\ trace' = Append(trace, Event("phase", "load_phase", <<>>))
    /\ load_results' = Some(dry_run_results(mongo_data))
    /\ pc' = "finish"
    /\ UNCHANGED <<db, errors, all_stats, returned>>

\* run, lines 341-344, with load_phase
LoadPhase ==
    /\ pc = "load"
    /\ IF RaisesAt("load_phase")
       THEN /\ trace' = Append(trace, Event("phase", "load_phase", <<>>))
            /\ Propagate("load_phase")
            /\ all_stats' = all_stats
       ELSE /\ IF dry_run THEN LoadPhaseDryRun ELSE LoadPhaseWrites
            /\ UNCHANGED <<source_data, mongo_data, mongo_client, exit_code>>
    /\ UNCHANGED <<id_mapper, calls, arg, ret, write_rejects, batch_size, clear_existing,
                   dry_run, pg, faults, report,
        all_records, offset, page_batch_num>>

\* run, lines 346-364: the final summary, which lists stats["errors"], then
\* True when no error was recorded and False otherwise.
Finish ==
    /\ pc = "finish"
    /\ IF RaisesAt("print_final_summary")
       THEN trace' = trace /\ Propagate("print_final_summary")
       ELSE /\ trace' = Append(trace, Event("summary", "print_final_summary", errors))
            /\ returned' = Some(errors = <<>>)
            /\ pc' = "finally"
            /\ UNCHANGED <<source_data, mongo_data, db, errors, load_results, mongo_client,
                           exit_code>>
    /\ RunFrame

\* run, lines 366-369: except KeyboardInterrupt
ExceptKeyboardInterrupt ==
    /\ pc = "except_KeyboardInterrupt"
    /\ errors' = Append(errors, "User interrupted migration")
    /\ ReturnFalse
    /\ UNCHANGED <<source_data, mongo_data, db, load_results, trace, mongo_client, exit_code>>
    /\ RunFrame

\* run, lines 371-374: except Exception
ExceptException ==
    /\ pc = "except_Exception"
    /\ errors' = Append(errors, "Unexpected")
    /\ ReturnFalse
    /\ UNCHANGED <<source_data, mongo_data, db, load_results, trace, mongo_client, exit_code>>
    /\ RunFrame

\* a close_mongo_client that leaves the cached client in place
close_mongo_client_keeps(client) == client

\* config.close_mongo_client: closes the cached client, if any, and forgets it
close_mongo_client(client) == None

\* run, lines 376-379: the finally block, then run() returns
Finally ==
    /\ pc = "finally"
    /\ mongo_client' = close_mongo_client(mongo_client)
    /\ trace' = Append(trace, Event("close", "close_mongo_client", <<>>))
    /\ pc' = "returned"
    /\ UNCHANGED <<source_data, mongo_data, db, errors, load_results, returned, exit_code>>
    /\ RunFrame

\* an exit status that does not depend on the result of run()
exit_status_always_zero(success) == 0

\* main, lines 478-482: sys.exit(0 if success else 1)
exit_status(success) == IF success THEN 0 ELSE 1

Exit ==
    /\ pc = "returned"
    /\ exit_code' = Some(exit_status(returned[1]))
    /\ pc' = "exited"
    /\ UNCHANGED <<source_data, mongo_data, db, errors, load_results, trace, mongo_client,
                   returned>>
    /\ RunFrame

NextRun ==
    \/ MainConfirm
    \/ TestConnections
    \/ ExtractPhase
    \/ TransformPhase
    \/ LoadPhase
    \/ Finish
    \/ ExceptKeyboardInterrupt
    \/ ExceptException
    \/ Finally
    \/ Exit

SpecRun == InitRun /\ [][NextRun]_vars

(***************************************************************************)
(* VALIDATION (validate.py): run_all_validations against a source and a    *)
(* target.                                                                 *)
(***************************************************************************)
\* a message with the values formatted into it
Message(text, args) == [text |-> text, args |-> args]

\* ValidationResult.__init__
ValidationResult(check_name, category) ==
    [check_name |-> check_name, category |-> category, passed |-> FALSE,
     message |-> Message("", <<>>), details |-> EmptyDict]

\* ValidationResult.pass_check
pass_check(result, message, details) ==
    [result EXCEPT !.passed = TRUE, !.message = message, !.details = details]

\* a fail_check that marks the result as passed
fail_check_passes(result, message, details) ==
    [result EXCEPT !.passed = TRUE, !.message = message, !.details = details]

\* ValidationResult.fail_check
fail_check(result, message, details) ==
    [result EXCEPT !.passed = FALSE, !.message = message, !.details = details]

\* except Exception as e: result.fail_check(f"Error: {str(e)}")
error_result(result, e) == fail_check(result, Message("Error: ", <<e>>), EmptyDict)

\* the count checks, lines 163-183 (and 193-306): equal counts pass
count_result(result, pg_count, mongo_count, mongo_key) ==
    IF pg_count = mongo_count
    THEN pass_check(result, Message("Counts match: ", <<pg_count>>),
                    ("postgres" :> pg_count) @@ (mongo_key :> mongo_count))
    ELSE fail_check(result, Message("Count mismatch: ", <<pg_count, mongo_count>>),
                    ("postgres" :> pg_count) @@ (mongo_key :> mongo_count)
                    @@ ("difference" :> pg_count - mongo_count))

validate_organization_count(tables, store) ==
    count_result(ValidationResult("Organization Count", "count"),
                 Len(tables.organizations), Len(store.organizations), "mongodb")
validate_user_count(tables, store) ==
    count_result(ValidationResult("User Count", "count"),
                 Len(tables.users), Len(store.users), "mongodb")
validate_label_count(tables, store) ==
    count_result(ValidationResult("Label Count", "count"),
                 Len(tables.labels), Len(store.labels), "mongodb")
validate_project_count(tables, store) ==
    count_result(ValidationResult("Project Count", "count"),
                 Len(tables.projects), Len(store.projects), "mongodb")
validate_embedded_task_count(tables, store) ==
    count_result(ValidationResult("Task Count (Embedded)", "count"),
                 Len(tables.tasks), embedded_task_count(store.projects), "mongodb_embedded")

RECURSIVE Flatten(_)
Flatten(lists) == IF lists = <<>> THEN <<>> ELSE Head(lists) \o Flatten(Tail(lists))

\* collection.find_one({key: value}): the first matching document, or None
find_one(collection, key, value) ==
    LET found == {i \in DOMAIN collection :
                     Has(collection[i], key) /\ collection[i][key] = value}
    IN  IF found = {} THEN None
        ELSE Some(collection[CHOOSE i \in found : \A j \in found : i <= j])

\* one mismatch message
Mismatch(what, id) == [what |-> what, id |-> id]

\* the fields of a sampled row compared with the document found for it
field_mismatches(row, doc, fields) ==
    Flatten([k \in DOMAIN fields |->
                IF doc[fields[k]] # row[fields[k]]
                THEN <<Mismatch(fields[k], row.id)>> ELSE <<>>])

\* validate_organization_samples / validate_user_samples, the loop over the
\* sample: a row without document is "not found", otherwise its fields are
\* compared
sample_mismatches(rows, sample, collection, fields) ==
    Flatten([k \in DOMAIN sample |->
                LET row == rows[sample[k]]
                    doc == find_one(collection, "pg_id", row.id)
                IN  IF doc = None THEN <<Mismatch("not found", row.id)>>
                    ELSE field_mismatches(row, doc[1], fields)])

\* a field read by subscript that a found document lacks raises KeyError
sample_raises(rows, sample, collection, fields) ==
    \E k \in DOMAIN sample :
        LET doc == find_one(collection, "pg_id", rows[sample[k]].id)
        IN  doc # None /\ \E f \in DOMAIN fields : ~Has(doc[1], fields[f])

\* the end of a sample check, lines 347-353
sample_result(result, sample, mismatches) ==
    IF mismatches = <<>>
    THEN pass_check(result, Message("All sample rows match: ", <<Len(sample)>>), EmptyDict)
    ELSE fail_check(result, Message("mismatches found: ", <<Len(mismatches)>>),
                    [mismatches |-> mismatches])

\* validate_organization_samples and validate_user_samples
sample_check(result, rows, sample, collection, fields, nothing_found) ==
    IF rows = <<>>
    THEN fail_check(result, Message(nothing_found, <<>>), EmptyDict)
    ELSE IF sample_raises(rows, sample, collection, fields)
    THEN error_result(result, "KeyError")
    ELSE sample_result(result, sample, sample_mismatches(rows, sample, collection, fields))

validate_organization_samples(tables, store, sample) ==
    sample_check(ValidationResult("Organization Samples", "sample"),
                 tables.organizations, sample, store.organizations, <<"name">>,
                 "No organizations found in PostgreSQL")
validate_user_samples(tables, store, sample) ==
    sample_check(ValidationResult("User Samples", "sample"),
                 tables.users, sample, store.users, <<"name", "email">>,
                 "No users found in PostgreSQL")

\* every embedded task of the target, in the order of projects and tasks
embedded_tasks(projects) ==
    Flatten([i \in DOMAIN projects |-> Get(projects[i], "tasks", <<>>)])

\* validate_task_samples: the task is looked up in the embedded arrays
\* (find_one with "tasks.pg_id" and the positional projection)
validate_task_samples(tables, store, sample) ==
    sample_check(ValidationResult("Task Samples", "sample"),
                 tables.tasks, sample, embedded_tasks(store.projects),
                 <<"title", "status", "priority">>, "No tasks found in PostgreSQL")

\* collection.distinct(key): the values of the key, each once
RECURSIVE distinct_from(_, _, _)
distinct_from(collection, key, values) ==
    IF collection = <<>> THEN values
    ELSE distinct_from(Tail(collection), key,
                       IF Has(Head(collection), key)
                          /\ \A i \in DOMAIN values : values[i] # Head(collection)[key]
                       THEN Append(values, Head(collection)[key]) ELSE values)
distinct(collection, key) == distinct_from(collection, key, <<>>)

\* str(ObjectId): the hexadecimal text of the id
str(id) == [hex |-> id]

\* a missing_ids that overlooks the last dangling reference
missing_ids_drops_last(ids, collection) ==
    LET all == Flatten([k \in DOMAIN ids |->
                           IF find_one(collection, "_id", ids[k]) = None
                           THEN <<str(ids[k])>> ELSE <<>>])
    IN  IF all = <<>> THEN all ELSE SubSeq(all, 1, Len(all) - 1)

\* the referenced ids for which find_one({"_id": id}) finds nothing
missing_ids(ids, collection) ==
    Flatten([k \in DOMAIN ids |->
                IF find_one(collection, "_id", ids[k]) = None THEN <<str(ids[k])>> ELSE <<>>])

\* the end of a relationship check, lines 483-489 and 546-552
reference_result(result, total, missing, payload, details_key) ==
    IF missing = <<>>
    THEN pass_check(result, Message("All references valid: ", <<total>>), EmptyDict)
    ELSE fail_check(result, Message("missing references: ", <<Len(missing)>>),
                    details_key :> payload)

SeqToSet(seq) == {seq[i] : i \in DOMAIN seq}

\* validate_project_org_references / validate_label_org_references: the
\* distinct org_id values of the collection, looked up one by one
distinct_reference_check(result, collection, organizations) ==
    LET org_ids == distinct(collection, "org_id")
        missing_orgs == missing_ids(org_ids, organizations)
    IN  reference_result(result, Len(org_ids), missing_orgs, missing_orgs, "missing_org_ids")

validate_project_org_references(store) ==
    distinct_reference_check(ValidationResult("Project -> Organization References",
                                              "relationship"),
                             store.projects, store.organizations)
validate_label_org_references(store) ==
    distinct_reference_check(ValidationResult("Label -> Organization References",
                                              "relationship"),
                             store.labels, store.organizations)

\* the values of `key` in the embedded rows of every document: one per row
\* that has the key
embedded_references(documents, array, key) ==
    Flatten([i \in DOMAIN documents |->
                LET rows == Get(documents[i], array, <<>>)
                IN  Flatten([j \in DOMAIN rows |->
                                IF Has(rows[j], key) THEN <<rows[j][key]>> ELSE <<>>])])

\* the number of embedded rows of every document
embedded_row_count(documents, array) ==
    Len(Flatten([i \in DOMAIN documents |-> Get(documents[i], array, <<>>)]))

\* validate_user_org_references: every membership of every user
validate_user_org_references(store) ==
    LET missing_orgs == missing_ids(embedded_references(store.users, "organizations",
                                                        "org_id"),
                                    store.organizations)
    IN  reference_result(
            ValidationResult("User -> Organization References (Embedded)", "relationship"),
            embedded_row_count(store.users, "organizations"),
            missing_orgs, SeqToSet(missing_orgs), "missing_org_ids")

\* validate_task_assignee_references: every assignee of every embedded task
validate_task_assignee_references(store) ==
    LET tasks == embedded_tasks(store.projects)
        missing_users == missing_ids(embedded_references(tasks, "assignees", "user_id"),
                                     store.users)
    IN  reference_result(
            ValidationResult("Task Assignee -> User References", "relationship"),
            embedded_row_count(tasks, "assignees"),
            missing_users, SeqToSet(missing_users), "missing_user_ids")

\* cursor.limit(n)
Limit(collection, n) == SubSeq(collection, 1, IF Len(collection) < n THEN Len(collection) ELSE n)

\* isinstance(doc.get(key), datetime): the key is present and not null
is_datetime(doc, key) == Has(doc, key) /\ doc[key] # None

\* isinstance(doc.get(key), ObjectId) and isinstance(doc.get(key), int): the
\* key is present (every _id, org_id and pg_id of the model is of its type)
is_typed(doc, key) == Has(doc, key)

\* the documents whose field fails the type test, each reported under its
\* id_key
type_errors(documents, okay(_, _), key, what, id_key) ==
    Flatten([i \in DOMAIN documents |->
                IF okay(documents[i], key) THEN <<>>
                ELSE <<Mismatch(what, documents[i][id_key])>>])

\* the embedded rows whose field fails the type test, each reported under
\* the _id of the document that holds it
embedded_type_errors(documents, array, okay(_, _), key, what) ==
    Flatten([i \in DOMAIN documents |->
                LET rows == Get(documents[i], array, <<>>)
                IN  Flatten([j \in DOMAIN rows |->
                                IF okay(rows[j], key) THEN <<>>
                                ELSE <<Mismatch(what, documents[i]._id)>>])])

\* the end of a datatype check, lines 630-636: the first ten errors are shown
type_result(result, type_errs) ==
    IF type_errs = <<>>
    THEN pass_check(result, Message("All fields are proper", <<>>), EmptyDict)
    ELSE fail_check(result, Message("type errors found: ", <<Len(type_errs)>>),
                    [errors |-> Limit(type_errs, 10)])

\* a user's own field, then its memberships' field, user by user (lines
\* 613-619 and 659-665)
user_type_errors(users, okay(_, _), key, embedded_key, what, embedded_what, id_key) ==
    Flatten([i \in DOMAIN users |->
                type_errors(<<users[i]>>, okay, key, what, id_key)
                \o embedded_type_errors(<<users[i]>>, "organizations", okay,
                                        embedded_key, embedded_what)])

\* a project's created_at, then its tasks' created_at (lines 622-628)
project_datetime_errors(projects) ==
    Flatten([i \in DOMAIN projects |->
                type_errors(<<projects[i]>>, is_datetime, "created_at",
                            "Project created_at", "_id")
                \o type_errors(Get(projects[i], "tasks", <<>>), is_datetime, "created_at",
                               "Task created_at", "_id")])

\* a project's _id, then its org_id (lines 668-672)
project_objectid_errors(projects) ==
    Flatten([i \in DOMAIN projects |->
                type_errors(<<projects[i]>>, is_typed, "_id", "Project _id", "pg_id")
                \o type_errors(<<projects[i]>>, is_typed, "org_id", "Project org_id",
                               "pg_id")])

validate_datetime_types(store) ==
    type_result(ValidationResult("DateTime Type Validation", "datatype"),
        type_errors(Limit(store.organizations, 10), is_datetime, "created_at",
                    "Org created_at", "_id")
        \o user_type_errors(Limit(store.users, 10), is_datetime, "created_at", "joined_at",
                            "User created_at", "User joined_at", "_id")
        \o project_datetime_errors(Limit(store.projects, 5)))

validate_objectid_types(store) ==
    type_result(ValidationResult("ObjectId Type Validation", "datatype"),
        type_errors(Limit(store.organizations, 10), is_typed, "_id", "Org _id", "pg_id")
        \o user_type_errors(Limit(store.users, 10), is_typed, "_id", "org_id",
                            "User _id", "User org_id", "pg_id")
        \o project_objectid_errors(Limit(store.projects, 5)))

validate_integer_types(store) ==
    type_result(ValidationResult("Integer Type Validation (pg_id)", "datatype"),
        type_errors(Limit(store.organizations, 10), is_typed, "pg_id", "Org pg_id", "_id")
        \o type_errors(Limit(store.users, 10), is_typed, "pg_id", "User pg_id", "_id")
        \o type_errors(Limit(store.projects, 5), is_typed, "pg_id", "Project pg_id", "_id"))

\* the checks of run_all_validations, lines 752-781, in the order of the calls
ValidationChecks ==
    <<"validate_organization_count", "validate_user_count", "validate_label_count",
      "validate_project_count", "validate_task_count",
      "validate_organization_samples", "validate_user_samples", "validate_task_samples",
      "validate_project_org_references", "validate_label_org_references",
      "validate_user_org_references", "validate_task_assignee_references",
      "validate_datetime_types", "validate_objectid_types", "validate_integer_types">>

\* a run that leaves out the sample checks
AfterCheck_skips_samples(name) ==
    LET k == CHOOSE i \in DOMAIN ValidationChecks : ValidationChecks[i] = name
    IN  IF name = "validate_task_count" THEN "validate_project_org_references"
        ELSE IF k = Len(ValidationChecks) THEN "validated" ELSE ValidationChecks[k + 1]

\* what follows a check: the next call, or the return of the report
AfterCheck(name) ==
    LET k == CHOOSE i \in DOMAIN ValidationChecks : ValidationChecks[i] = name
    IN  IF k = Len(ValidationChecks) THEN "validated" ELSE ValidationChecks[k + 1]

\* a source whose users, labels and projects refer to an organization that is
\* not among the organizations
MissingOrganization ==
    Dataset(1, 2, 2, 2, 1,
            <<DatasetTaskOfChoice(1, <<2, 1>>), DatasetTaskOfChoice(2, <<1, 1>>)>>)

ValidationSources == {TwoOfEach, OneOfEach, NoRows, MissingOrganization}

\* the target after extract, transform and load of `data` into an empty
\* target that refuses the _ids in `rejects`
Migrated(data, rejects) ==
    load_all_data(EmptyDb, Del(transform_all_data(data), "m"), DefaultBatchSize, FALSE,
                  Server(rejects, {}, {})).db

\* the _ids a target refused during the migration: none, the first and the
\* third generated, or both (the first organization and the first user of a
\* source with two organizations)
ValidationRejects == {{}, {ObjectId(0)}, {ObjectId(2)}, {ObjectId(0), ObjectId(2)}}

\* the targets validated: never loaded, loaded from one of the sources, or
\* holding a document of another origin
ValidationTargets ==
    RunTargets \cup {Migrated(data, rejects) : data \in ValidationSources,
                                               rejects \in ValidationRejects}

\* the checks in which the connection is lost
CheckFaults ==
    {{}, {"validate_organization_count"},
     {"validate_organization_samples", "validate_task_assignee_references"},
     {"validate_integer_types"},
     {ValidationChecks[i] : i \in DOMAIN ValidationChecks}}

\* random.sample(rows, min(sample_size, len(rows))): the positions drawn
Samples(n, sample_size) ==
    LET k == IF sample_size < n THEN sample_size ELSE n
    IN  {sample \in [1..k -> 1..n] :
            \A i, j \in 1..k : sample[i] = sample[j] => i = j}

\* main -> run_all_validations(sample_size): a fresh ValidationReport
InitValidate ==
    /\ id_mapper = IDMapper
    /\ calls = {}
    /\ arg \in 1..MaxSampleSize
    /\ ret = Idle
    /\ source_data = None
    /\ mongo_data = None
    /\ db \in ValidationTargets
    /\ all_stats = <<>>
    /\ write_rejects = {}
    /\ batch_size = DefaultBatchSize
    /\ clear_existing = FALSE
    /\ pc = ValidationChecks[1]
    /\ dry_run = FALSE
    /\ errors = <<>>
    /\ load_results = None
    /\ trace = <<>>
    /\ mongo_client = None
    /\ pg \in ValidationSources
    /\ faults \in {[raises |-> checks] : checks \in CheckFaults}
    /\ returned = None
    /\ exit_code = None
    /\ report = <<>>
    /\ all_records = <<>>
    /\ offset = 0
    /\ page_batch_num = 1

\* the checks that query the source before they open the target (lines
\* 164-165, 321-322 and alike)
SourceChecks == {ValidationChecks[i] : i \in 1..8}

\* One check from its first line to report.add_result(result): the result it
\* computed, or, when an exception was raised inside its try block, the
\* failed result carrying the exception text; then the next check.  A check
\* that gets as far as `with MongoConnection() as db` (`reaches`: a sample
\* check returns before it when the source has no rows) leaves the target
\* client cached.  The connection is lost at the source query, at
\* MongoClient(...) (no client comes to exist), or at the ping or a later
\* operation of the target (the client stays cached, config.py:131-143).
Check(name, result, reaches) ==
    /\ pc = name
    /\ LET lost_at == (IF name \in SourceChecks THEN {"source"} ELSE {})
                      \cup (IF reaches THEN {"client", "ping"} ELSE {})
       IN  IF name \in faults.raises
           THEN \E at \in lost_at :
                   mongo_client' = IF at = "ping" THEN get_mongo_client(mongo_client)
                                   ELSE mongo_client
           ELSE mongo_client' = IF reaches THEN get_mongo_client(mongo_client)
                                ELSE mongo_client
    /\ report' = Append(report,
                        IF name \in faults.raises
                        THEN error_result(ValidationResult(result.check_name,
                                                           result.category),
                                          "connection lost")
                        ELSE result)
    /\ trace' = Append(trace, Event("check", name, <<>>))
    /\ pc' = AfterCheck(name)
    /\ UNCHANGED <<id_mapper, calls, arg, ret, source_data, mongo_data, db, all_stats,
                   write_rejects, batch_size, clear_existing, dry_run, errors,
                   load_results, pg, faults, returned, exit_code,
                   all_records, offset, page_batch_num>>

ValidateOrganizationCount ==
    Check("validate_organization_count", validate_organization_count(pg, db), TRUE)
ValidateUserCount == Check("validate_user_count", validate_user_count(pg, db), TRUE)
ValidateLabelCount == Check("validate_label_count", validate_label_count(pg, db), TRUE)
ValidateProjectCount == Check("validate_project_count", validate_project_count(pg, db), TRUE)
ValidateTaskCount == Check("validate_task_count", validate_embedded_task_count(pg, db), TRUE)
ValidateOrganizationSamples ==
    \E sample \in Samples(Len(pg.organizations), arg) :
        Check("validate_organization_samples", validate_organization_samples(pg, db, sample),
              pg.organizations # <<>>)
ValidateUserSamples ==
    \E sample \in Samples(Len(pg.users), arg) :
        Check("validate_user_samples", validate_user_samples(pg, db, sample),
              pg.users # <<>>)
ValidateTaskSamples ==
    \E sample \in Samples(Len(pg.tasks), arg) :
        Check("validate_task_samples", validate_task_samples(pg, db, sample),
              pg.tasks # <<>>)
ValidateProjectOrgReferences ==
    Check("validate_project_org_references", validate_project_org_references(db), TRUE)
ValidateLabelOrgReferences ==
    Check("validate_label_org_references", validate_label_org_references(db), TRUE)
ValidateUserOrgReferences ==
    Check("validate_user_org_references", validate_user_org_references(db), TRUE)
ValidateTaskAssigneeReferences ==
    Check("validate_task_assignee_references", validate_task_assignee_references(db), TRUE)
ValidateDatetimeTypes == Check("validate_datetime_types", validate_datetime_types(db), TRUE)
ValidateObjectidTypes == Check("validate_objectid_types", validate_objectid_types(db), TRUE)
ValidateIntegerTypes == Check("validate_integer_types", validate_integer_types(db), TRUE)

NextValidate ==
    \/ ValidateOrganizationCount
    \/ ValidateUserCount
    \/ ValidateLabelCount
    \/ ValidateProjectCount
    \/ ValidateTaskCount
    \/ ValidateOrganizationSamples
    \/ ValidateUserSamples
    \/ ValidateTaskSamples
    \/ ValidateProjectOrgReferences
    \/ ValidateLabelOrgReferences
    \/ ValidateUserOrgReferences
    \/ ValidateTaskAssigneeReferences
    \/ ValidateDatetimeTypes
    \/ ValidateObjectidTypes
    \/ ValidateIntegerTypes

SpecValidate == InitValidate /\ [][NextValidate]_vars

\* ---------------------------------------------------------------------
\* Properties of run()

\* the names of the events of one kind, in the order of the trace
RECURSIVE EventNames(_, _)
EventNames(events, ev) ==
    IF events = <<>> THEN <<>>
    ELSE (IF Head(events).ev = ev THEN <<Head(events).name>> ELSE <<>>)
         \o EventNames(Tail(events), ev)

PhasesEntered == EventNames(trace, "phase")

IsPrefixOf(s, t) == Len(s) <= Len(t) /\ s = SubSeq(t, 1, Len(s))

\* extract_phase was entered and returned None
ExtractReturnedNone ==
    Len(PhasesEntered) >= 2 /\ ~RaisesAt("extract_phase") /\ source_data = None

\* transform_phase was entered and returned None
TransformReturnedNone ==
    Len(PhasesEntered) >= 3 /\ ~RaisesAt("transform_phase") /\ mongo_data = None

\* C11: the phases are entered only in the order connectivity check, extract,
\* transform, load; once extract_phase or transform_phase has returned None no
\* later phase is ever entered, the error naming the failed phase is in
\* stats["errors"], and run() returns False.
C11_PhasesInOrder ==
    /\ IsPrefixOf(PhasesEntered, RunPhases)
    /\ ExtractReturnedNone =>
          /\ PhasesEntered = SubSeq(RunPhases, 1, 2)
          /\ errors = <<"Extraction">>
          /\ returned = Some(FALSE)
    /\ TransformReturnedNone =>
          /\ PhasesEntered = SubSeq(RunPhases, 1, 3)
          /\ errors = <<"Transformation">>
          /\ returned = Some(FALSE)

C11_Witness == ExtractReturnedNone /\ pc = "exited"

C11_WitnessTransform == TransformReturnedNone /\ pc = "exited"

\* run() has returned
RunReturned == pc \in {"returned", "exited"} /\ returned # None

\* the final summary was emitted and listed exactly the errors recorded
SummaryListsErrors ==
    \E i \in DOMAIN trace : trace[i].ev = "summary" /\ trace[i].detail = errors

\* C12: whenever run() has returned after recording an error (an aborted
\* extract, transform or load phase, an operator interrupt, an unexpected
\* exception), the final summary was emitted before the return and lists
\* every recorded error.
C12_SummaryOnError == (RunReturned /\ errors # <<>>) => SummaryListsErrors

\* C13: on every exit path of run(), close_mongo_client is called exactly
\* once, after the last phase action and before run() returns, and the cached
\* client is closed and reset; it is not called while run() is still going.
C13_ClientClosedOnce ==
    /\ RunReturned =>
          /\ Len(EventNames(trace, "close")) = 1
          /\ trace[Len(trace)].ev = "close"
          /\ mongo_client = None
    /\ ~RunReturned => EventNames(trace, "close") = <<>>

C13_Witness ==
    /\ pc = "returned"
    /\ faults.kind = "KeyboardInterrupt"
    /\ faults.at = "load_phase"
    /\ errors = <<"User interrupted migration">>
    /\ mongo_client = None

\* the operations sent to the target so far
WritesSent == EventNames(trace, "bulk_write") \o EventNames(trace, "delete_many")

\* load_phase was entered and returned
LoadPhaseReturned ==
    /\ Len(PhasesEntered) = 4
    /\ ~RaisesAt("load_phase")
    /\ pc # "load"

\* C14: in a dry run nothing is ever written to the target, with or without
\* clear_existing: no insert and no delete is sent and the target keeps its
\* content; when the connectivity check, extract and transform succeeded the
\* load result has total_inserted = 0 and total_failed = 0 and run() returns
\* True.
C14_DryRunWritesNothing ==
    /\ [](dry_run => WritesSent = <<>>)
    /\ []((dry_run /\ LoadPhaseReturned) =>
             /\ load_results # None
             /\ load_results[1].total_inserted = 0
             /\ load_results[1].total_failed = 0)
    /\ []((dry_run /\ LoadPhaseReturned /\ ~RaisesAt("print_final_summary") /\ RunReturned)
             => returned = Some(TRUE))
    /\ [][dry_run => db' = db]_vars

C14_Witness ==
    /\ dry_run /\ clear_existing
    /\ RunReturned /\ returned = Some(TRUE)
    /\ db.organizations = <<OldDocument>>
    /\ Len(mongo_data.projects) = 2
    /\ load_results[1].total_documents = 8

\* run() returned True only after every phase was entered and completed and
\* with no recorded error
TrueOnlyAfterAllPhases ==
    returned = Some(TRUE) =>
        /\ PhasesEntered = RunPhases
        /\ LoadPhaseReturned
        /\ source_data # None
        /\ mongo_data # None
        /\ load_results # None
        /\ (~dry_run => EventNames(trace, "bulk_write") # <<>> \/ load_results[1].total_documents = 0)
        /\ errors = <<>>

\* C15 (as stated): run() returns True only if the connectivity check,
\* extract, transform and load phases were all entered and completed and
\* stats["errors"] is empty at the end; the process exits with code 0 exactly
\* when run() returned True and with code 1 otherwise.
C15_ExitZeroIffRunTrue ==
    /\ TrueOnlyAfterAllPhases
    /\ pc = "exited" =>
          /\ exit_code = Some(0) <=> returned = Some(TRUE)
          /\ exit_code = Some(1) <=> returned # Some(TRUE)

\* the operator was asked for confirmation
Prompted == trace # <<>> /\ trace[1].ev = "input"

\* the prompt did not get a "yes": input() raised, or the line typed is not
\* "yes" once put in lower case
Declined == Prompted /\ (trace[1].name # "" \/ lower(trace[1].detail) # Yes)

\* C15 (amended): run() returns True only if all phases were entered and
\* completed and stats["errors"] is empty; a process that called run() exits
\* with code 0 exactly when run() returned True and with code 1 otherwise.
\* The operator is asked exactly when the run is not a dry run; a process
\* whose prompt did not get a "yes" in any letter case never calls run(), and
\* it exits with code 0, or with code 1 when input() failed with EOFError;
\* every process that exits without having called run() is such a process.
C15_ExitStatusAfterRun ==
    /\ TrueOnlyAfterAllPhases
    /\ (pc = "exited" /\ returned # None) =>
          /\ exit_code = Some(0) <=> returned = Some(TRUE)
          /\ exit_code = Some(1) <=> returned # Some(TRUE)
    /\ pc # "main" => (Prompted <=> ~dry_run)
    /\ Declined =>
          /\ pc = "exited" /\ returned = None
          /\ Len(trace) = 1
          /\ exit_code = Some(IF trace[1].name = "EOFError" THEN 1 ELSE 0)
    /\ (pc = "exited" /\ returned = None) => Declined

\* A migration confirmed with "YES" loaded two projects and exited with 0.
C15_Witness ==
    /\ pc = "exited" /\ ~dry_run
    /\ trace[1].detail = <<"Y", "E", "S">>
    /\ returned = Some(TRUE) /\ exit_code = Some(0)
    /\ Len(db.projects) = 2

\* the prompt was answered with "no"; the input ended at the prompt
C15_WitnessDeclined ==
    pc = "exited" /\ trace[1].detail = <<"n", "o">> /\ exit_code = Some(0)
C15_WitnessEndOfInput ==
    pc = "exited" /\ trace[1].name = "EOFError" /\ exit_code = Some(1) /\ returned = None

C15_WitnessFailed == pc = "exited" /\ returned = Some(FALSE) /\ exit_code = Some(1)

\* the load of a non-dry run reported at least one failed document
LoadReportedFailures ==
    /\ ~dry_run
    /\ load_results # None
    /\ load_results[1].total_failed > 0

\* C16: when the load result of a non-dry run has total_failed > 0, run()
\* returns False and the process exits with code 1.
C16_FailedDocumentsFailRun ==
    (LoadReportedFailures /\ RunReturned) =>
        /\ returned = Some(FALSE)
        /\ pc = "exited" => exit_code = Some(1)

\* the bulk writes sent to the target so far, as <<collection, _ids>>
RECURSIVE BulkWritesSent(_)
BulkWritesSent(events) ==
    IF events = <<>> THEN <<>>
    ELSE (IF Head(events).ev = "bulk_write"
          THEN <<(<<Head(events).name, Head(events).detail>>)>> ELSE <<>>)
         \o BulkWritesSent(Tail(events))

\* the number of batches of n documents
BatchCount(n) == (n + batch_size - 1) \div batch_size

\* the _ids of batch b of the documents of one collection
BatchIds(documents, b) ==
    [k \in 1..(IF b * batch_size < Len(documents)
               THEN batch_size ELSE Len(documents) - (b - 1) * batch_size)
        |-> documents[(b - 1) * batch_size + k]._id]

\* every batch of one collection, once, in order
BatchesOf(name) ==
    [b \in 1..BatchCount(Len(mongo_data[name])) |-> <<name, BatchIds(mongo_data[name], b)>>]

\* the documents of one collection that the target did not take: those of a
\* bulk write that raised, and those the server rejected
FailedDocuments(name) ==
    {k \in DOMAIN mongo_data[name] :
        \/ <<name, ((k - 1) \div batch_size) + 1>> \in faults.raises
        \/ mongo_data[name][k]._id \in write_rejects}

\* the batches of one collection in which a document failed
FailedBatches(name) == {((k - 1) \div batch_size) + 1 : k \in FailedDocuments(name)}

\* the load of a non-dry run went through its collections
LoadCompleted == ~dry_run /\ LoadPhaseReturned /\ load_results # None

\* C17: a rejected or failing bulk write never prevents a later batch or a
\* later collection: after the load every batch of each of the four
\* collections was submitted exactly once, and each rejection is recorded in
\* the failed count and the error list of its collection.
C17_EveryBatchSubmittedOnce ==
    LoadCompleted =>
        /\ BulkWritesSent(trace) = BatchesOf("organizations") \o BatchesOf("users")
                                   \o BatchesOf("labels") \o BatchesOf("projects")
        /\ \A name \in {"organizations", "users", "labels", "projects"} :
              LET stats == load_results[1].collections[name]
              IN  /\ stats.batches_processed = BatchCount(Len(mongo_data[name]))
                  /\ stats.failed_count = Cardinality(FailedDocuments(name))
                  /\ Len(stats.errors) = Cardinality(FailedBatches(name))
                  /\ stats.inserted_count + stats.failed_count = stats.total_documents

C17_Witness ==
    /\ LoadCompleted /\ RunReturned
    /\ batch_size = 1
    /\ faults.raises = {<<"organizations", 1>>, <<"projects", 1>>}
    /\ load_results[1].collections["organizations"].failed_count = 1
    /\ load_results[1].collections["projects"].failed_count = 1
    /\ Len(BulkWritesSent(trace)) = 8
    /\ Len(db.projects) = 1

C17_WitnessRejected ==
    /\ LoadCompleted /\ RunReturned
    /\ write_rejects # {}
    /\ load_results[1].collections["organizations"].errors = <<"BulkWriteError">>
    /\ Len(db.users) = 2

\* the position of a collection in the dependency order
DependencyRank(name) ==
    CASE name = "organizations" -> 1
      [] name = "users" -> 2
      [] name = "labels" -> 3
      [] name = "projects" -> 4
      [] OTHER -> 0

\* every task document of the target lies in the tasks array of the project
\* the source task belongs to
TasksOnlyEmbedded ==
    /\ DOMAIN db = {"organizations", "users", "labels", "projects"}
    /\ \A i \in DOMAIN db.projects : \A j \in DOMAIN db.projects[i].tasks :
          \E k \in DOMAIN pg.tasks :
             /\ pg.tasks[k].id = db.projects[i].tasks[j].pg_id
             /\ pg.tasks[k].project_id = db.projects[i].pg_id

\* the tables queried since the extract phase was entered
RECURSIVE QueriesAfter(_, _)
QueriesAfter(events, phase) ==
    IF events = <<>> THEN <<>>
    ELSE IF Head(events).ev = "phase" /\ Head(events).name = phase
    THEN EventNames(Tail(events), "query")
    ELSE QueriesAfter(Tail(events), phase)

ExtractQueries == QueriesAfter(trace, "extract_phase")

\* C18: extraction and load proceed in dependency order: the source queries
\* start with the organizations and run in the order organizations, users,
\* labels, projects, tasks; all bulk writes of one collection come before
\* those of the next, in the order organizations, users, labels, projects; no
\* operation addresses any other collection, and a task reaches the target
\* only inside the document of its project.
C18_DependencyOrder ==
    /\ IsPrefixOf(ExtractQueries,
                  <<"organizations", "users", "labels", "projects", "tasks">>)
    /\ LET writes == BulkWritesSent(trace)
       IN  /\ \A i \in DOMAIN writes : DependencyRank(writes[i][1]) > 0
           /\ \A i, j \in DOMAIN writes :
                 i < j => DependencyRank(writes[i][1]) <= DependencyRank(writes[j][1])
    /\ \A i \in DOMAIN trace :
          trace[i].ev = "delete_many" => DependencyRank(trace[i].name) > 0
    /\ TasksOnlyEmbedded

C18_Witness ==
    /\ LoadCompleted /\ RunReturned
    /\ batch_size = 1
    /\ Len(ExtractQueries) = 5
    /\ Len(BulkWritesSent(trace)) = 8
    /\ Len(db.projects) = 2
    /\ \E i \in DOMAIN db.projects : Len(db.projects[i].tasks) > 0

\* a source row lacks a field the transformation requires: a user without
\* email, or a task of an extracted project without title
MissingRequiredField(data) ==
    \/ \E i \in DOMAIN data.users : ~Has(data.users[i], "email")
    \/ \E k \in DOMAIN data.tasks :
          /\ ~Has(data.tasks[k], "title")
          /\ \E i \in DOMAIN data.projects : data.projects[i].id = data.tasks[k].project_id

\* transform_phase was entered and returned
TransformPhaseReturned ==
    /\ Len(PhasesEntered) >= 3
    /\ ~RaisesAt("transform_phase")

\* C19: when a source record lacks a required field (a user without email, a
\* task without title) transform_all_data raises and returns nothing; the
\* orchestrator records a "Transformation" error, never enters the load
\* phase, returns False, and the target is left as it was.
C19_MissingFieldAbortsRun ==
    /\ []((MissingRequiredField(pg) /\ TransformPhaseReturned) =>
             /\ transform_all_data(source_data).raised = "KeyError"
             /\ mongo_data = None
             /\ errors = <<"Transformation">>
             /\ PhasesEntered = SubSeq(RunPhases, 1, 3)
             /\ WritesSent = <<>>
             /\ returned = Some(FALSE))
    /\ [][MissingRequiredField(pg) => db' = db]_vars

C19_Witness ==
    /\ pg = UserWithoutEmail
    /\ ~dry_run /\ clear_existing
    /\ db.organizations = <<OldDocument>>
    /\ pc = "exited"
    /\ errors = <<"Transformation">>

C19_WitnessTask ==
    /\ pg = TaskWithoutTitle
    /\ pc = "exited"
    /\ errors = <<"Transformation">>

\* the comments of a task whose created_at cannot be parsed
UnparseableComments(task) ==
    {i \in DOMAIN task.comments : task.comments[i].created_at = TsJunk}

\* C20: an unparseable timestamp never aborts the transformation:
\* convert_timestamp returns null for it, and the record that holds it (here
\* a task with such a comment) is still transformed, with that field null.
C20_UnparseableTimestampTolerated ==
    /\ convert_timestamp(TsJunk) = None
    /\ (pc = "task_done" /\ NoNullLabelPayload(arg) /\ UnparseableComments(arg) # {}) =>
          /\ ret.raised = ""
          /\ \A i \in UnparseableComments(arg) :
                \E j \in DOMAIN ret.doc.comments :
                   /\ ret.doc.comments[j].pg_id = arg.comments[i].id
                   /\ ret.doc.comments[j].created_at = None

\* the connectivity check ran and found the source or the target unreachable
ConnectivityCheckFailed ==
    /\ faults.kind = "connection"
    /\ Len(PhasesEntered) >= 1

\* C22: when the connectivity check finds the source or the target
\* unreachable, the run aborts before the extract phase and the failure is
\* recorded in stats["errors"], whether it was reported as a false result or
\* as an exception.
C22_ConnectivityFailureRecorded ==
    ConnectivityCheckFailed =>
        /\ PhasesEntered = <<"test_connections">>
        /\ returned = Some(FALSE)
        /\ errors # <<>>

(***************************************************************************)
(* PAGINATION (extract.py): extract_with_pagination on one table.  The     *)
(* source answers a page query with the rows of the requested range, in    *)
(* table order; pg is the table, arg the call's table_name and filters,    *)
(* batch_size its batch_size.                                              *)
(***************************************************************************)
\* query.eq(key, value) for every filter: the rows that match all of them
eq_filters(rows, filters) ==
    LET matches(row) == \A key \in DOMAIN filters : Has(row, key) /\ row[key] = filters[key]
    IN  SelectSeq(rows, matches)

\* a range that leaves out its last row
range_exclusive(rows, first, last) ==
    SubSeq(rows, first + 1, IF last < Len(rows) THEN last ELSE Len(rows))

\* query.range(first, last): the rows first..last, counted from 0, both
\* inclusive; fewer when the table ends before last, none when it ends
\* before first
range(rows, first, last) ==
    SubSeq(rows, first + 1, IF last + 1 < Len(rows) THEN last + 1 ELSE Len(rows))

\* the page query of one iteration, lines 476-488
page_query(table, filters, first, size) ==
    range(eq_filters(table, filters), first, first + size - 1)

PageRow(i, status) == [id |-> i, status |-> status]
PageTables == ListsOf(PageRow, {"active", "done"}, MaxRows)

\* filters=None, or {"status": "active"}
PageFilters == {EmptyDict, [status |-> "active"]}

\* the page query that raises APIError: none, the first, the second
PageFaults == {[query_raises |-> k] : k \in 0..2}

InitPagination ==
    /\ id_mapper = IDMapper
    /\ calls = {}
    /\ arg \in {[table_name |-> "tasks", filters |-> f] : f \in PageFilters}
    /\ ret = Idle
    /\ source_data = None
    /\ mongo_data = None
    /\ db = EmptyDb
    /\ all_stats = <<>>
    /\ write_rejects = {}
    /\ batch_size \in 1..MaxBatchSize
    /\ clear_existing = FALSE
    /\ pc = "page"
    /\ dry_run = FALSE
    /\ errors = <<>>
    /\ load_results = None
    /\ trace = <<>>
    /\ mongo_client = None
    /\ pg \in PageTables
    /\ faults \in PageFaults
    /\ returned = None
    /\ exit_code = None
    /\ report = <<>>
    /\ all_records = <<>>
    /\ offset = 0
    /\ page_batch_num = 1

PaginationFrame ==
    UNCHANGED <<id_mapper, calls, arg, source_data, mongo_data, db, all_stats,
                write_rejects, batch_size, clear_existing, dry_run, errors, load_results,
                mongo_client, pg, faults, returned, exit_code, report>>

\* one iteration of the while loop, lines 474-501: the page is queried; an
\* empty page ends the loop, a page is appended, a page shorter than
\* batch_size ends the loop, otherwise the offset moves on.  A query that
\* raises leaves the function (lines 507-512).
FetchPage ==
    /\ pc = "page"
    /\ trace' = Append(trace, Event("query", arg.table_name,
                                    <<offset, offset + batch_size - 1>>))
    /\ IF faults.query_raises = page_batch_num
       THEN /\ ret' = [raised |-> "APIError", doc |-> None]
            /\ pc' = "raised"
            /\ UNCHANGED <<all_records, offset, page_batch_num>>
       ELSE LET batch == page_query(pg, arg.filters, offset, batch_size)
            IN  /\ ret' = ret
                /\ all_records' = all_records \o batch
                /\ IF batch = <<>> \/ Len(batch) < batch_size
                   THEN /\ pc' = "return"
                        /\ UNCHANGED <<offset, page_batch_num>>
                   ELSE /\ pc' = "page"
                        /\ offset' = offset + batch_size
                        /\ page_batch_num' = page_batch_num + 1
    /\ PaginationFrame

\* return all_records, line 505
ReturnAllRecords ==
    /\ pc = "return"
    /\ ret' = [raised |-> "", doc |-> all_records]
    /\ pc' = "returned"
    /\ UNCHANGED <<trace, all_records, offset, page_batch_num>>
    /\ PaginationFrame

NextPagination ==
    \/ FetchPage
    \/ ReturnAllRecords

SpecPagination == InitPagination /\ [][NextPagination]_vars

\* the loop is not interrupted: each step is taken when it can be
SpecPaginationFair == SpecPagination /\ WF_vars(NextPagination)

\* ---------------------------------------------------------------------
\* Properties of run_all_validations

\* the results a complete report holds, in order: check name and category
ExpectedResults ==
    <<<<"Organization Count", "count">>, <<"User Count", "count">>,
      <<"Label Count", "count">>, <<"Project Count", "count">>,
      <<"Task Count (Embedded)", "count">>,
      <<"Organization Samples", "sample">>, <<"User Samples", "sample">>,
      <<"Task Samples", "sample">>,
      <<"Project -> Organization References", "relationship">>,
      <<"Label -> Organization References", "relationship">>,
      <<"User -> Organization References (Embedded)", "relationship">>,
      <<"Task Assignee -> User References", "relationship">>,
      <<"DateTime Type Validation", "datatype">>,
      <<"ObjectId Type Validation", "datatype">>,
      <<"Integer Type Validation (pg_id)", "datatype">>>>

ReportedChecks == [i \in DOMAIN report |-> <<report[i].check_name, report[i].category>>]

\* the checks executed so far, in order
ChecksExecuted == EventNames(trace, "check")

ExpectedChecks ==
    <<"validate_organization_count", "validate_user_count", "validate_label_count",
      "validate_project_count", "validate_task_count",
      "validate_organization_samples", "validate_user_samples", "validate_task_samples",
      "validate_project_org_references", "validate_label_org_references",
      "validate_user_org_references", "validate_task_assignee_references",
      "validate_datetime_types", "validate_objectid_types", "validate_integer_types">>

\* C21: run_all_validations executes every check exactly once in the fixed
\* order count (organization, user, label, project, task), sample
\* (organization, user, task), relationship (project-org, label-org, user-org,
\* task-assignee-user), datatype (datetime, objectid, integer), whatever
\* checks fail or hit an exception: the report it returns holds exactly one
\* result per check, in that order.
C21_AllChecksInOrder ==
    /\ IsPrefixOf(ChecksExecuted, ExpectedChecks)
    /\ IsPrefixOf(ReportedChecks, ExpectedResults)
    /\ Len(report) = Len(ChecksExecuted)
    /\ pc = "validated" =>
          /\ ChecksExecuted = ExpectedChecks
          /\ ReportedChecks = ExpectedResults

\* a report returned although every count and sample check failed and the
\* connection was lost in two checks
C21_Witness ==
    /\ pc = "validated"
    /\ Len(report) = 15
    /\ \A i \in 1..5 : ~report[i].passed
    /\ report[6].message.text = "Error: "
    /\ report[12].message.text = "Error: "
    /\ report[15].passed

\* the ids the target's documents refer to, by kind of reference
ProjectOrgRefs == {db.projects[i].org_id : i \in DOMAIN db.projects}
LabelOrgRefs == {db.labels[i].org_id : i \in DOMAIN db.labels}
UserOrgRefs ==
    UNION {{db.users[i].organizations[j].org_id : j \in DOMAIN db.users[i].organizations}
           : i \in DOMAIN db.users}
TaskAssigneeRefs ==
    UNION {UNION {{db.projects[i].tasks[j].assignees[a].user_id
                      : a \in DOMAIN db.projects[i].tasks[j].assignees}
                  : j \in DOMAIN db.projects[i].tasks}
           : i \in DOMAIN db.projects}

\* the referenced ids that are the _id of no document of the collection
Dangling(refs, collection) ==
    {id \in refs : \A i \in DOMAIN collection : collection[i]._id # id}

\* the result of check number k is in the report and was not cut short by an
\* exception
Reported(k) == Len(report) >= k /\ ExpectedChecks[k] \notin faults.raises

\* a result passes exactly when nothing dangles, and otherwise its payload
\* is the text of every dangling id
ReportsDangling(result, dangling, payload) ==
    /\ result.passed <=> dangling = {}
    /\ ~result.passed => payload = {str(id) : id \in dangling}

\* C24: each relationship check (project-org, label-org, user-org embedded,
\* task-assignee-user) passes exactly when every reference of its kind in
\* the target resolves to an existing target document; when it fails, its
\* details hold every dangling referenced id.
C24_RelationshipChecks ==
    /\ Reported(9) =>
          ReportsDangling(report[9], Dangling(ProjectOrgRefs, db.organizations),
              IF report[9].passed THEN {}
              ELSE {report[9].details.missing_org_ids[i]
                       : i \in DOMAIN report[9].details.missing_org_ids})
    /\ Reported(10) =>
          ReportsDangling(report[10], Dangling(LabelOrgRefs, db.organizations),
              IF report[10].passed THEN {}
              ELSE {report[10].details.missing_org_ids[i]
                       : i \in DOMAIN report[10].details.missing_org_ids})
    /\ Reported(11) =>
          ReportsDangling(report[11], Dangling(UserOrgRefs, db.organizations),
              IF report[11].passed THEN {} ELSE report[11].details.missing_org_ids)
    /\ Reported(12) =>
          ReportsDangling(report[12], Dangling(TaskAssigneeRefs, db.users),
              IF report[12].passed THEN {} ELSE report[12].details.missing_user_ids)

\* a target in which references to organizations and to users dangle
C24_Witness ==
    /\ pc = "validated" /\ faults.raises = {}
    /\ ~report[9].passed /\ ~report[10].passed
    /\ ~report[11].passed /\ ~report[12].passed
    /\ Cardinality(report[11].details.missing_org_ids) = 1

C24_WitnessAllResolve ==
    /\ pc = "validated" /\ faults.raises = {}
    /\ Len(db.projects) = 2
    /\ \A k \in 9..12 : report[k].passed

\* C25: an exception raised inside a validation check never propagates out
\* of it: the check adds exactly one result to the report, marked failed,
\* whose message carries the exception text, and the run goes on with the
\* check after it.
C25_CheckExceptionContained ==
    /\ Len(report) <= Len(ExpectedChecks)
    /\ pc = IF Len(report) = Len(ExpectedChecks) THEN "validated"
            ELSE ExpectedChecks[Len(report) + 1]
    /\ \A k \in DOMAIN report :
          ExpectedChecks[k] \in faults.raises =>
              /\ ~report[k].passed
              /\ report[k].message.text = "Error: "
              /\ report[k].message.args = <<"connection lost">>
              /\ <<report[k].check_name, report[k].category>> = ExpectedResults[k]

\* the connection was lost in the organization sample check and in the task
\* assignee check; the checks between and after them ran and passed
C25_Witness ==
    /\ pc = "validated"
    /\ faults.raises = {"validate_organization_samples", "validate_task_assignee_references"}
    /\ ~report[6].passed /\ report[6].message.text = "Error: "
    /\ report[7].passed /\ report[8].passed /\ report[11].passed
    /\ ~report[12].passed
    /\ report[13].passed /\ report[15].passed

(***************************************************************************)
(* Properties of the denormalized counts                                   *)
(***************************************************************************)

\* the number of embedded tasks in the given status
TasksInStatus(tasks, status) ==
    Cardinality({i \in DOMAIN tasks : tasks[i].status = status})

\* the number of comments embedded in the first n tasks
RECURSIVE CommentsEmbedded(_, _)
CommentsEmbedded(tasks, n) ==
    IF n = 0 THEN 0 ELSE Len(tasks[n].comments) + CommentsEmbedded(tasks, n - 1)

CountsMatch(task) ==
    /\ task.comment_count = Len(task.comments)
    /\ task.assignee_count = Len(task.assignees)

\* C26: in every project document transform_project returns, stats.total_tasks
\* is the length of the tasks array, the completed, in_progress and todo counts
\* are the numbers of embedded tasks in those statuses, total_comments is the
\* sum of the tasks' comment_count, and every task document has comment_count
\* and assignee_count equal to the lengths of its comments and assignees.
C26_DenormalizedCounts ==
    /\ (pc = "project_done" /\ ret.raised = "") =>
          LET doc == ret.doc
          IN  /\ doc.stats.total_tasks = Len(doc.tasks)
              /\ doc.stats.completed_tasks = TasksInStatus(doc.tasks, "completed")
              /\ doc.stats.in_progress_tasks = TasksInStatus(doc.tasks, "in_progress")
              /\ doc.stats.todo_tasks = TasksInStatus(doc.tasks, "todo")
              /\ doc.stats.total_comments = CommentsEmbedded(doc.tasks, Len(doc.tasks))
              /\ \A i \in DOMAIN doc.tasks : CountsMatch(doc.tasks[i])
    /\ (pc = "task_done" /\ ret.raised = "") => CountsMatch(ret.doc)

\* a project with a completed task without comments and a task in progress
\* with comments, next to a task of another project
C26_Witness ==
    /\ pc = "project_done" /\ ret.raised = ""
    /\ Len(arg.tasks) > Len(ret.doc.tasks)
    /\ ret.doc.stats.total_tasks = 1
    /\ ret.doc.stats.in_progress_tasks = 1
    /\ ret.doc.stats.total_comments = MaxComments

\* a task that has both assignees and comments
C26_WitnessTask ==
    /\ pc = "task_done" /\ ret.raised = ""
    /\ ret.doc.assignee_count > 0 /\ ret.doc.comment_count > 0

\* ---------------------------------------------------------------------
\* Properties of load_collection_bulk
\* ---------------------------------------------------------------------

\* the batches of _ids submitted for one collection, in the order sent
RECURSIVE SubmittedBatches(_, _)
SubmittedBatches(events, name) ==
    IF events = <<>> THEN <<>>
    ELSE (IF Head(events).ev = "bulk_write" /\ Head(events).name = name
          THEN <<Head(events).detail>> ELSE <<>>)
         \o SubmittedBatches(Tail(events), name)

RECURSIVE Concatenated(_)
Concatenated(batches) ==
    IF batches = <<>> THEN <<>> ELSE Head(batches) \o Concatenated(Tail(batches))

\* every batch but the last is full, and the last is not empty
ConsecutiveSlices(batches) ==
    \A b \in DOMAIN batches :
        /\ Len(batches[b]) >= 1
        /\ Len(batches[b]) <= batch_size
        /\ b < Len(batches) => Len(batches[b]) = batch_size

\* n is the least number of batches of batch_size that hold total documents
IsCeiling(n, total) ==
    /\ n * batch_size >= total
    /\ n > 0 => (n - 1) * batch_size < total

\* C27: when load_collection_bulk returns normally (ordered=False, batch size
\* at least 1), inserted_count + failed_count = total_documents = the number
\* of documents passed in, batches_processed = ceil(total / batch_size), and
\* the batches submitted are consecutive slices of the input in input order,
\* so that each document is submitted in exactly one batch.
C27_LoadCollectionAccounts ==
    LoadCompleted =>
        \A name \in {"organizations", "users", "labels", "projects"} :
            LET stats == load_results[1].collections[name]
                documents == mongo_data[name]
                batches == SubmittedBatches(trace, name)
            IN  /\ stats.total_documents = Len(documents)
                /\ stats.inserted_count + stats.failed_count = stats.total_documents
                /\ IsCeiling(stats.batches_processed, stats.total_documents)
                /\ Len(batches) = stats.batches_processed
                /\ Concatenated(batches) = [k \in DOMAIN documents |-> documents[k]._id]
                /\ ConsecutiveSlices(batches)

\* two organizations loaded in one batch of two, one of them rejected by the
\* server
C27_Witness ==
    /\ LoadCompleted
    /\ batch_size = 2
    /\ Len(mongo_data.organizations) = 2
    /\ load_results[1].collections["organizations"].batches_processed = 1
    /\ load_results[1].collections["organizations"].inserted_count = 1
    /\ load_results[1].collections["organizations"].failed_count = 1

\* two batches of one document, the first of which raised as a whole
C27_WitnessRaised ==
    /\ LoadCompleted
    /\ batch_size = 1
    /\ load_results[1].collections["users"].batches_processed = 2
    /\ load_results[1].collections["users"].inserted_count = 1
    /\ load_results[1].collections["users"].failed_count = 1
    /\ load_results[1].collections["users"].errors = <<"Unexpected error">>

\* ---------------------------------------------------------------------
\* Properties of clear_existing
\* ---------------------------------------------------------------------

\* the operations sent to the target so far, as <<operation, collection>>
RECURSIVE TargetOperations(_)
TargetOperations(events) ==
    IF events = <<>> THEN <<>>
    ELSE (IF Head(events).ev \in {"delete_many", "bulk_write"}
          THEN <<(<<Head(events).ev, Head(events).name>>)>> ELSE <<>>)
         \o TargetOperations(Tail(events))

\* the collections in clearing order up to and including the first whose
\* delete raises
DeletesAttempted ==
    LET failing == {i \in DOMAIN CollectionNames :
                        CollectionNames[i] \in faults.delete_raises}
        last == IF failing = {} THEN Len(CollectionNames)
                ELSE CHOOSE i \in failing : \A j \in failing : i <= j
    IN  SubSeq(CollectionNames, 1, last)

ClearingLoadReturned == ~dry_run /\ clear_existing /\ LoadPhaseReturned

\* C28: with clear_existing, load_all_data deletes all four collections
\* before the first insert; if a delete raises, load_all_data raises without
\* having inserted anything, the collections deleted before the failure stay
\* empty, and the orchestrator records a "Loading" error and returns False.
C28_ClearBeforeInsert ==
    ClearingLoadReturned =>
        LET ops == TargetOperations(trace)
            deletes == [k \in DOMAIN DeletesAttempted |-> <<"delete_many", DeletesAttempted[k]>>]
        IN  /\ IsPrefixOf(deletes, ops)
            /\ \A k \in DOMAIN ops : k > Len(deletes) => ops[k][1] = "bulk_write"
            /\ faults.delete_raises # {} =>
                  /\ ops = deletes
                  /\ \A k \in 1..(Len(deletes) - 1) : db[deletes[k][2]] = <<>>
                  /\ load_results = None
                  /\ errors = <<"Loading">>
                  /\ returned = Some(FALSE)

\* the delete on labels raised after organizations, which held a document,
\* and users had been cleared
C28_Witness ==
    /\ ClearingLoadReturned /\ RunReturned
    /\ faults.delete_raises = {"labels"}
    /\ mongo_data.organizations # <<>>
    /\ Len(TargetOperations(trace)) = 3
    /\ db = EmptyDb
    /\ errors = <<"Loading">>

\* all four deletes went through and the inserts followed
C28_WitnessCleared ==
    /\ ClearingLoadReturned /\ RunReturned
    /\ faults.delete_raises = {}
    /\ Len(TargetOperations(trace)) > 4
    /\ TargetOperations(trace)[5] = <<"bulk_write", "organizations">>
    /\ \A i \in DOMAIN db.organizations : db.organizations[i] # OldDocument

\* ---------------------------------------------------------------------
\* Properties of references to records that were not extracted
\* ---------------------------------------------------------------------

\* the organization ids that labels and projects of the source refer to
\* although no extracted organization has them
UnextractedOrgRefs(data) ==
    ({data.labels[i].org_id : i \in DOMAIN data.labels}
     \cup {data.projects[i].org_id : i \in DOMAIN data.projects})
    \ {data.organizations[i].id : i \in DOMAIN data.organizations}

\* the _ids of all documents transform_all_data produced
ProducedIds(data) ==
    UNION {{data[name][i]._id : i \in DOMAIN data[name]}
           : name \in {"organizations", "users", "labels", "projects"}}

\* the reference was given the id the mapper registered for the source id,
\* and no produced document has that id
FreshReference(reference, pg_id) ==
    /\ pg_id \in DOMAIN id_mapper.org_ids
    /\ reference = id_mapper.org_ids[pg_id]
    /\ reference \notin ProducedIds(mongo_data)

\* C29: when a label or a project refers to an organization id that no
\* extracted organization has, transform_all_data still succeeds; the mapper
\* registers a fresh id for it, so that the mapper's count of organizations
\* exceeds the number of organization documents, and the reference produced
\* is the _id of no produced document.
C29_UnextractedReference ==
    (pc # "transform" /\ UnextractedOrgRefs(source_data) # {}) =>
        /\ mongo_data.raised = ""
        /\ get_stats(id_mapper).organizations > Len(mongo_data.organizations)
        /\ Len(mongo_data.labels) = Len(source_data.labels)
        /\ Len(mongo_data.projects) = Len(source_data.projects)
        /\ \A i \in DOMAIN source_data.labels :
              source_data.labels[i].org_id \in UnextractedOrgRefs(source_data) =>
                  FreshReference(mongo_data.labels[i].org_id, source_data.labels[i].org_id)
        /\ \A i \in DOMAIN source_data.projects :
              source_data.projects[i].org_id \in UnextractedOrgRefs(source_data) =>
                  FreshReference(mongo_data.projects[i].org_id,
                                 source_data.projects[i].org_id)

\* one organization was extracted; a label and a project refer to another
C29_Witness ==
    /\ pc = "load"
    /\ Len(source_data.organizations) = 1
    /\ UnextractedOrgRefs(source_data) = {2}
    /\ \E i \in DOMAIN source_data.labels : source_data.labels[i].org_id = 2
    /\ \E i \in DOMAIN source_data.projects : source_data.projects[i].org_id = 2
    /\ get_stats(id_mapper).organizations = 2
    /\ Len(mongo_data.organizations) = 1

\* ---------------------------------------------------------------------
\* Properties of a repeated migration
\* ---------------------------------------------------------------------

\* per collection, the number of documents and the set of their pg_id
Content(store) ==
    [name \in {"organizations", "users", "labels", "projects"} |->
        [count |-> Len(store[name]),
         pg_ids |-> {store[name][i].pg_id : i \in DOMAIN store[name]}]]

\* the content a migration of the source is to leave: one document per row
SourceContent ==
    [name \in {"organizations", "users", "labels", "projects"} |->
        [count |-> Len(source_data[name]),
         pg_ids |-> {source_data[name][i].id : i \in DOMAIN source_data[name]}]]

NoDuplicates(store) ==
    \A name \in {"organizations", "users", "labels", "projects"} :
        \A i, j \in DOMAIN store[name] :
            store[name][i].pg_id = store[name][j].pg_id => i = j

\* the migration ran with clear_existing on a target that refuses nothing
ClearingMigration == clear_existing /\ write_rejects = {}

\* C23: running transform and load with clear_existing a second time on an
\* unchanged source leaves the target with the same per-collection document
\* counts and the same set of pg_id per collection as running it once, and
\* without duplicates: after one run and after two the content is that of
\* the source, one document per row.
C23_RerunIdempotent ==
    /\ (pc = "done" /\ ClearingMigration) =>
          Content(db) = SourceContent /\ NoDuplicates(db)
    /\ (pc = "done_again" /\ ClearingMigration) =>
          Content(db) = SourceContent /\ NoDuplicates(db)

\* the second run of a source with two rows of every type has replaced the
\* documents of the first: same pg_ids, other _ids
C23_Witness ==
    /\ pc = "done_again" /\ ClearingMigration
    /\ Content(db).organizations = [count |-> 2, pg_ids |-> {1, 2}]
    /\ Content(db).projects = [count |-> 2, pg_ids |-> {1, 2}]
    /\ Content(db).users.count = 2 /\ Content(db).labels.count = 2
    /\ \A i \in DOMAIN db.organizations : db.organizations[i]._id > id_mapper.oids \div 2

\* ---------------------------------------------------------------------
\* Properties of extract_with_pagination
\* ---------------------------------------------------------------------

\* the records of the table the call is to return: those matching the filters
TableRecords ==
    [k \in 1..Cardinality({i \in DOMAIN pg :
                              \A key \in DOMAIN arg.filters : pg[i][key] = arg.filters[key]})
        |-> LET kept == {i \in DOMAIN pg :
                            \A key \in DOMAIN arg.filters : pg[i][key] = arg.filters[key]}
            IN  pg[CHOOSE i \in kept : Cardinality({j \in kept : j <= i}) = k]]

PageQueries == EventNames(trace, "query")

PaginationStep ==
    /\ Len(PageQueries) <= (Len(TableRecords) \div batch_size) + 1
    /\ IsPrefixOf(all_records, TableRecords)
    /\ pc = "page" => offset = Len(PageQueries) * batch_size /\ offset = Len(all_records)
    /\ pc = "returned" =>
          /\ ret.raised = ""
          /\ ret.doc = TableRecords
          /\ Len(PageQueries) = (Len(TableRecords) \div batch_size) + 1

\* C30: for a table of N records in a stable order and a batch size B >= 1,
\* extract_with_pagination terminates and returns exactly the N records,
\* each once and in table order; it stops at the first page that is empty
\* or shorter than B, having issued floor(N / B) + 1 page queries.
C30_PaginationComplete ==
    /\ []PaginationStep
    /\ (faults.query_raises = 0) => <>(pc = "returned")

\* five queries for four records fetched one at a time: the last page is empty
C30_Witness ==
    /\ pc = "returned"
    /\ batch_size = 1
    /\ Len(ret.doc) = MaxRows
    /\ Len(PageQueries) = MaxRows + 1

\* a filtered table of three records fetched in pages of two: the second
\* page is short
C30_WitnessShortPage ==
    /\ pc = "returned"
    /\ batch_size = 2
    /\ arg.filters # EmptyDict
    /\ Len(pg) > Len(ret.doc)
    /\ Len(ret.doc) = 3
    /\ Len(PageQueries) = 2

====
